---- MODULE Spec2Model ----
(***************************************************************************)
(* Playback session engine of the Discord music bot (src/bot.py), for one  *)
(* guild.  The bot runs on one asyncio event loop: a coroutine runs        *)
(* without interruption up to its next suspending await, so every action   *)
(* below is the code between two such awaits.                              *)
(*                                                                         *)
(* The objects of discord.py and wavelink that bot.py drives are modelled  *)
(* at the call sites, by what the calls do:                                *)
(*  - guild.voice_client is the one voice-client slot discord.py keeps per *)
(*    guild; channel.connect() fills it before its first await and raises  *)
(*    when it is already filled;                                           *)
(*  - Player.disconnect() clears the slot OF THE GUILD (cleanup() removes  *)
(*    by guild id), destroys the guild's Lavalink player and leaves voice, *)
(*    whichever Player object it is called on;                             *)
(*  - Player.playing is "_connected and _current is not None";             *)
(*  - Player.play(track) sets _current at once; on the Lavalink server a   *)
(*    track that is still playing is replaced and ends with reason         *)
(*    "replaced"; Player.skip()/stop() end it with reason "stopped";       *)
(*  - on a track-end event wavelink clears _current unless the reason is   *)
(*    "replaced", and then dispatches on_wavelink_track_end as a new task. *)
(* A REST call to Lavalink takes effect on the server at the call.         *)
(***************************************************************************)
EXTENDS Integers, Sequences, FiniteSets, TLC

\* ---------------------------------------------------------------- bounds
MaxMembers == 1
MaxPlayers == 2
MaxTracks == 3
MaxTimers == 2
MaxEvents == 1
MaxPlays == 4
MaxQueue == 12
MaxTime == 2700
MaxResults == 3
MaxPosition == 3

\* ------------------------------------------------------------- constants
Channels == {"A", "B"}
NoChannel == "none"
NoPlayer == 0
NoTrack == 0
Players == 1..MaxPlayers
Tracks == 1..MaxTracks
Slots == {1, 2}

VARIABLES
  members,        \* non-bot members in each voice channel (channel.members)
  voice_client,   \* guild.voice_client: the registered Player, or NoPlayer
  nplayers,       \* Player objects constructed so far
  players,        \* the Player objects: attributes of each
  dbAutoplay,     \* user_settings.autoplay of the guild (database.py)
  default_volume, \* user_settings.default_volume of the guild, or NoVolume
  srvTrack,       \* the track the Lavalink server plays for the guild
  events,         \* track-end events on the Lavalink websocket, in order
  handlers,       \* dispatched on_wavelink_track_end tasks not yet run
  searches,       \* track-end handlers awaiting the autoplay search
  timers,         \* on_voice_state_update tasks inside asyncio.sleep(120)
  cmd,            \* play commands in progress: position and player local
  nextTrack,      \* the next item the Source Resolver returns
  advances,       \* per ended track: queue advances made on its behalf
  lastFire,       \* what the timer firing in the last step saw and did
  lastEnd,        \* what the track-end handler of the last step saw and did
  lastCmd,        \* what the queue command of the last step saw and replied
  YTDLP_ENABLED,  \* config.YTDLP_ENABLED, read from the environment at start
  YTDLP_CACHE,    \* the module-level cache: normalised query -> (url, expiry)
  now,            \* time.time()
  resolving,      \* the play command inside track resolution, and its locals
  lastPut,        \* the query, url and expiry of the latest cache write
  lastRes         \* what the resolution step of the last step saw and did

vars == <<members, voice_client, nplayers, players, dbAutoplay,
          default_volume, srvTrack,
          events, handlers, searches, timers, cmd, nextTrack, advances,
          lastFire, lastEnd, lastCmd,
          YTDLP_ENABLED, YTDLP_CACHE, now, resolving, lastPut, lastRes>>

\* ----------------------------------------------------------- observations
NoFire ==
  [vc |-> NoPlayer, disconnected |-> FALSE, superseded |-> "no",
   dead |-> FALSE,
   live |-> NoPlayer, liveOccupied |-> FALSE, live247 |-> FALSE]

NoEnd ==
  [player |-> NoPlayer, reason |-> "none", by |-> "none", track |-> NoTrack,
   mode |-> "normal", autoplay |-> FALSE, next |-> NoTrack,
   started |-> NoTrack, kept |-> TRUE, searching |-> FALSE, results |-> 0,
   exhausted |-> FALSE, is247 |-> FALSE, playing |-> FALSE, armed |-> FALSE,
   searched |-> FALSE, second |-> NoTrack,
   failed |-> FALSE, notice |-> "none"]

\* No seek sent to the Lavalink server.
NoSeek == -1

NoCmd ==
  [op |-> "none", reply |-> "none", pos |-> 0, count |-> 0, lo |-> 0,
   hi |-> 0, shown |-> <<>>, kept |-> TRUE,
   wasLoaded |-> FALSE, wasPaused |-> FALSE, length |-> 0, sought |-> NoSeek,
   session |-> NoPlayer, channel |-> NoChannel, author |-> NoChannel,
   arg |-> "none"]

\* The step is neither a timer firing nor a track-end handler running.
Silent == lastFire' = NoFire /\ lastEnd' = NoEnd

\* No url: what yt_dlp_extract returns as None.
NoUrl == "none"

NoRes == [op |-> "none", query |-> <<>>, at |-> 0, url |-> NoUrl,
          kept |-> TRUE, reply |-> "none", from |-> "none", calls |-> <<>>,
          outs |-> <<>>]

\* The step is no part of track resolution, the clock does not move and the
\* stored default volume stays.
Unresolved ==
  /\ UNCHANGED <<YTDLP_ENABLED, YTDLP_CACHE, now, resolving, lastPut,
                 default_volume>>
  /\ lastRes' = NoRes

\* Nor is it a queue command replying.
Quiet == Silent /\ lastCmd' = NoCmd /\ Unresolved

\* ------------------------------------------------------------ the Player
\* No row of user_settings holds a default volume for the guild.
NoVolume == -1

\* The volume bounds of the volume and setvolume commands (bot.py 602, 1056)
\* and get_default_volume's answer when no row is stored (database.py 111).
MinVolume == 0
MaxVolume == 100
FallbackVolume == 50

\* db.get_default_volume (database.py 103-111).
GetDefaultVolume(stored) == IF stored = NoVolume THEN FallbackVolume ELSE stored

\* A creation that leaves the Player at the volume it is constructed with.
KeepsVolume(pl, stored) == pl

\* await player.set_volume(default_vol) on a new Player (bot.py 323-324,
\* 350-351, 957-958).
WithDefaultVolume(pl, stored) ==
  [pl EXCEPT !.volume = GetDefaultVolume(stored)]

\* A play or playlist-load command: where it is, the Player it works on and
\* the title of the embed it has sent.
NoCommand == [pc |-> "idle", player |-> NoPlayer, notice |-> "none"]

\* A Player as connect() constructs it. text_channel is whether the
\* attribute has been set (bot.py 359, 962); dequeued records that
\* queue.get() has been called since the last stop or clear command; volume
\* is 100 until set_volume is called.
NewPlayer(c) ==
  [voice |-> TRUE, connected |-> FALSE, channel |-> c, current |-> NoTrack,
   queue |-> <<>>, history |-> <<>>, enqueued |-> <<>>,
   mode |-> "normal", loaded |-> NoTrack, paused |-> FALSE,
   twentyfourseven |-> FALSE, autoplay_enabled |-> "unset",
   text_channel |-> FALSE, dequeued |-> FALSE, volume |-> 100]

NoObject ==
  [voice |-> FALSE, connected |-> FALSE, channel |-> NoChannel,
   current |-> NoTrack, queue |-> <<>>, history |-> <<>>, enqueued |-> <<>>,
   mode |-> "normal", loaded |-> NoTrack, paused |-> FALSE,
   twentyfourseven |-> FALSE, autoplay_enabled |-> "unset",
   text_channel |-> FALSE, dequeued |-> FALSE, volume |-> 100]

\* wavelink Player.playing
Playing(p) == players[p].connected /\ players[p].current # NoTrack

\* hasattr(player, 'twentyfourseven') and player.twentyfourseven: every read
\* of the attribute has this form (bot.py 217, 279, 288) and the toggle sets a
\* missing attribute to False first (bot.py 822), so a missing attribute is
\* kept as FALSE.
TwentyFourSeven(p) == players[p].twentyfourseven

\* hasattr(player, 'autoplay_enabled') and player.autoplay_enabled
AutoplayEnabled(p) == players[p].autoplay_enabled = "on"

\* [m for m in channel.members if not m.bot] is empty
ChannelEmpty(c) == c \in Channels /\ members[c] = 0

TotalMembers == members["A"] + members["B"]

\* The Player objects that hold a voice connection of the guild: the Sessions.
Sessions == {p \in Players : players[p].voice}

\* -------------------------------------------------------- Lavalink server
\* The server ends the track it plays, if any, with `reason`; `by` remembers
\* the command that ended it (history only).
EndedBy(reason, by) ==
  IF srvTrack = NoTrack THEN events
  ELSE Append(events, [track |-> srvTrack, reason |-> reason, by |-> by])

EndedEvents(reason) == EndedBy(reason, "none")

CanEmit == Len(events) < MaxEvents

\* ------------------------------------------------------------- lifecycle
\* Player.disconnect() called on object p: p is invalidated, the guild's
\* voice-client slot and Lavalink player are removed, the bot leaves voice.
AfterDisconnect(p) ==
  [q \in Players |->
     IF q = p THEN [players[q] EXCEPT !.connected = FALSE, !.voice = FALSE]
     ELSE [players[q] EXCEPT !.voice = FALSE]]

\* A disconnect that leaves the Player registered as the voice client.
DisconnectKeepsSlot(p) ==
  /\ players' = [players EXCEPT ![p].connected = FALSE]
  /\ UNCHANGED <<voice_client, srvTrack, events>>

Disconnect(p) ==
  /\ players' = AfterDisconnect(p)
  /\ voice_client' = NoPlayer
  /\ IF voice_client # NoPlayer
       THEN /\ CanEmit
            /\ events' = EndedEvents("stopped")
            /\ srvTrack' = NoTrack
       ELSE UNCHANGED <<srvTrack, events>>

\* channel.connect(cls=wavelink.Player) up to its first await: the Player is
\* constructed and registered as the guild's voice client.
Connect(c) ==
  /\ voice_client = NoPlayer
  /\ nplayers < MaxPlayers
  /\ nplayers' = nplayers + 1
  /\ voice_client' = nplayers + 1
  /\ players' = [players EXCEPT ![nplayers + 1] = NewPlayer(c)]

\* A non-bot occupant is present in the channel of the session a pending
\* timer belongs to: remembered in the timer (history only).
Superseded(t, why) == IF t.superseded = "no" THEN [t EXCEPT !.superseded = why] ELSE t

MarkReoccupied(ts, pl) ==
  [i \in 1..Len(ts) |->
     IF ChannelEmpty(pl[ts[i].vc].channel) THEN ts[i]
     ELSE Superseded(ts[i], "reoccupied")]

\* A join that connects without looking at guild.voice_client first.
JoinUnchecked(c) ==
  /\ members[c] > 0
  /\ nplayers < MaxPlayers
  /\ nplayers' = nplayers + 1
  /\ voice_client' = nplayers + 1
  /\ players' = [players EXCEPT ![nplayers + 1] = NewPlayer(c)]
  /\ timers' = MarkReoccupied(timers, players')
  /\ UNCHANGED <<members, dbAutoplay, srvTrack, events, handlers, searches,
                 cmd, nextTrack, advances>>
  /\ Quiet

\* What join and leave saw before they acted: the guild's voice client
\* and its channel.
Met(op) ==
  [NoCmd EXCEPT !.op = op, !.session = voice_client,
                !.channel = IF voice_client = NoPlayer THEN NoChannel
                            ELSE players[voice_client].channel]

\* Player p, or NoObject for no player, without its channel.
Kept(pl, p) ==
  IF p = NoPlayer THEN NoObject ELSE [pl[p] EXCEPT !.channel = NoChannel]

\* A join that connects anew whether or not the guild has a voice client.
JoinAnew(c) ==
  /\ c \in Channels => members[c] > 0
  /\ nplayers < MaxPlayers
  /\ nplayers' = nplayers + 1
  /\ voice_client' = nplayers + 1
  /\ players' = [players EXCEPT ![nplayers + 1] =
                    NewPlayer(IF c = NoChannel THEN "A" ELSE c)]
  /\ lastCmd' = [Met("join") EXCEPT !.author = c, !.reply = "Joined",
                                    !.kept = FALSE]
  /\ timers' = MarkReoccupied(timers, players')
  /\ UNCHANGED <<members, dbAutoplay, srvTrack, events, handlers, searches,
                 cmd, nextTrack, advances>>
  /\ Silent /\ Unresolved

\* join (bot.py 308-326), with the author in voice channel c, or in none
\* (c = NoChannel).
Join(c) ==
  /\ c \in Channels => members[c] > 0
  /\ IF c = NoChannel
       THEN /\ UNCHANGED <<voice_client, nplayers, players>>
            /\ lastCmd' = [Met("join") EXCEPT
                              !.author = c,
                              !.reply = "You need to be in a voice channel!"]
       ELSE IF voice_client # NoPlayer
       THEN /\ players' = [players EXCEPT ![voice_client].channel = c]
            /\ UNCHANGED <<voice_client, nplayers>>
            /\ lastCmd' = [Met("join") EXCEPT
                              !.author = c,
                              !.reply = IF players[voice_client].channel = c
                                          THEN "I'm already in your channel!"
                                          ELSE "Joined",
                              !.kept = (Kept(players', voice_client)
                                          = Kept(players, voice_client))]
       ELSE /\ voice_client = NoPlayer
            /\ nplayers < MaxPlayers
            /\ nplayers' = nplayers + 1
            /\ voice_client' = nplayers + 1
            /\ players' = [players EXCEPT ![nplayers + 1] =
                             WithDefaultVolume(NewPlayer(c), default_volume)]
            /\ lastCmd' = [Met("join") EXCEPT !.author = c,
                                              !.reply = "Joined",
                                              !.kept = FALSE]
  /\ timers' = MarkReoccupied(timers, players')
  /\ UNCHANGED <<members, dbAutoplay, srvTrack, events, handlers, searches,
                 cmd, nextTrack, advances>>
  /\ Silent /\ Unresolved

\* The voice handshake of the registered Player completes: the awaited
\* channel.connect() returns.
VoiceConnected ==
  /\ voice_client # NoPlayer
  /\ ~players[voice_client].connected
  /\ players' = [players EXCEPT ![voice_client].connected = TRUE]
  /\ UNCHANGED <<members, voice_client, nplayers, dbAutoplay, srvTrack,
                 events, handlers, searches, timers, cmd, nextTrack,
                 advances>>
  /\ Quiet

\* leave (bot.py 329-336).
Leave ==
  /\ IF voice_client # NoPlayer
       THEN /\ Disconnect(voice_client)
            /\ lastCmd' = [Met("leave") EXCEPT !.reply = "Disconnected!",
                                               !.kept = FALSE]
       ELSE /\ UNCHANGED <<players, voice_client, srvTrack, events>>
            /\ lastCmd' = [Met("leave") EXCEPT
                              !.reply = "I'm not in a voice channel!",
                              !.kept = (players' = players)]
  /\ UNCHANGED <<members, nplayers, dbAutoplay, handlers, searches, timers,
                 cmd, nextTrack, advances>>
  /\ Silent /\ Unresolved

\* 247 (bot.py 816-830).
Toggle247 ==
  /\ voice_client # NoPlayer
  /\ players' = [players EXCEPT ![voice_client].twentyfourseven = ~@]
  /\ timers' = [i \in 1..Len(timers) |->
                  IF timers[i].vc = voice_client
                     /\ players'[voice_client].twentyfourseven
                    THEN Superseded(timers[i], "enabled247")
                    ELSE timers[i]]
  /\ UNCHANGED <<members, voice_client, nplayers, dbAutoplay, srvTrack,
                 events, handlers, searches, cmd, nextTrack, advances>>
  /\ Quiet

\* autoplay (bot.py 796-813).
ToggleAutoplay ==
  /\ voice_client # NoPlayer
  /\ players' = [players EXCEPT ![voice_client].autoplay_enabled =
                   IF @ = "on" THEN "off" ELSE "on"]
  /\ dbAutoplay' = (players'[voice_client].autoplay_enabled = "on")
  /\ UNCHANGED <<members, voice_client, nplayers, srvTrack, events,
                 handlers, searches, timers, cmd, nextTrack, advances>>
  /\ Quiet

\* ------------------------------------------------- occupancy and timers
\* A non-bot member joins voice channel c: on_voice_state_update runs with
\* before.channel = None and does nothing (bot.py 271).
MemberJoin(c) ==
  /\ TotalMembers < MaxMembers
  /\ members' = [members EXCEPT ![c] = @ + 1]
  /\ timers' = [i \in 1..Len(timers) |->
                  IF players[timers[i].vc].channel = c
                    THEN Superseded(timers[i], "reoccupied")
                    ELSE timers[i]]
  /\ UNCHANGED <<voice_client, nplayers, players, dbAutoplay, srvTrack,
                 events, handlers, searches, cmd, nextTrack, advances>>
  /\ Quiet

\* The on_voice_state_update task up to its sleep (bot.py 265-283), given
\* before.channel = c and the members of c after the update: TRUE when the
\* task goes on to asyncio.sleep(120).
StartsTimer(c, after) ==
  /\ voice_client # NoPlayer
  /\ after[c] = 0
  /\ ~TwentyFourSeven(voice_client)

\* A non-bot member leaves voice channel c.
MemberLeave(c) ==
  /\ members[c] > 0
  /\ members' = [members EXCEPT ![c] = @ - 1]
  /\ IF StartsTimer(c, members')
       THEN /\ Len(timers) < MaxTimers
            /\ timers' = Append(timers,
                   [vc |-> voice_client,
                    superseded |->
                      IF players[voice_client].channel = c THEN "no"
                      ELSE "foreign"])
       ELSE UNCHANGED timers
  /\ UNCHANGED <<voice_client, nplayers, players, dbAutoplay, srvTrack,
                 events, handlers, searches, cmd, nextTrack, advances>>
  /\ Quiet

\* The re-check after the sleep (bot.py 286-288) on the voice client p the
\* task captured before it.
StillIdle(p) ==
  /\ players[p].channel # NoChannel
  /\ ChannelEmpty(players[p].channel)
  /\ ~TwentyFourSeven(p)

\* The sleep of the oldest on_voice_state_update task is over (bot.py
\* 283-289).
TimerFire ==
  /\ timers # <<>>
  /\ LET t == Head(timers)
         p == t.vc
     IN /\ lastFire' = [vc |-> p, disconnected |-> StillIdle(p),
                        superseded |-> t.superseded,
                        dead |-> ~players[p].voice,
                        live |-> voice_client,
                        liveOccupied |-> (voice_client # NoPlayer
                           /\ ~ChannelEmpty(players[voice_client].channel)),
                        live247 |-> (voice_client # NoPlayer
                           /\ TwentyFourSeven(voice_client))]
        /\ IF StillIdle(p)
             THEN Disconnect(p)
             ELSE UNCHANGED <<players, voice_client, srvTrack, events>>
  /\ timers' = Tail(timers)
  /\ lastEnd' = NoEnd
  /\ lastCmd' = NoCmd /\ Unresolved
  /\ UNCHANGED <<members, nplayers, dbAutoplay, handlers, searches, cmd,
                 nextTrack, advances>>

\* -------------------------------------------------------------- playback
\* A get() that takes the newest item.
QueueGetLast(q) == q[Len(q)]

\* player.queue.get() in QueueMode.normal: the first item, removed.
QueueGet(q) == Head(q)

QueueRest(q) == Tail(q)

\* Queue.get() in QueueMode.loop with a loaded track: that track again, the
\* queue untouched.
Replays(pl) == pl.mode = "loop" /\ pl.loaded # NoTrack

\* Queue.get() in QueueMode.loop_all on an empty queue: the history is moved
\* back into the queue first.
Refilled(pl) ==
  IF pl.mode = "loop_all" /\ pl.queue = <<>>
    THEN [pl EXCEPT !.queue = pl.history, !.history = <<>>]
    ELSE pl

\* Queue.get() does not raise QueueEmpty on Player record pl.
CanGet(pl) == Replays(pl) \/ Refilled(pl).queue # <<>>

\* The track Queue.get() returns on Player record pl, and pl after the call.
GetTrack(pl) ==
  IF Replays(pl) THEN pl.loaded ELSE QueueGet(Refilled(pl).queue)

AfterGet(pl) ==
  IF Replays(pl) THEN [pl EXCEPT !.dequeued = TRUE]
  ELSE [Refilled(pl) EXCEPT !.queue = QueueRest(@),
                            !.loaded = QueueGet(Refilled(pl).queue),
                            !.dequeued = TRUE]

\* await player.play(t) on Player object p: _current, the loaded track and
\* the history of p, and the guild's track on the server, where a track
\* still playing ends with reason "replaced".
Play(p, t, pl) ==
  /\ srvTrack # NoTrack => CanEmit
  /\ Len(pl[p].history) < MaxPlays
  /\ players' = [pl EXCEPT ![p].current = t, ![p].loaded = t,
                           ![p].history = Append(@, t)]
  /\ events' = EndedEvents("replaced")
  /\ srvTrack' = t

\* play (bot.py 339-356) with the author in voice channel c: the session is
\* looked up or created.
PlayStart(s, c) ==
  /\ cmd[s].pc = "idle"
  /\ s = 1 \/ cmd[1].pc # "idle"
  /\ members[c] > 0
  /\ IF voice_client = NoPlayer
       THEN /\ Connect(c)
            /\ cmd' = [cmd EXCEPT ![s] = [NoCommand EXCEPT
                                          !.pc = "connecting",
                                          !.player = nplayers + 1]]
       ELSE /\ cmd' = [cmd EXCEPT ![s] = [NoCommand EXCEPT
                                          !.pc = "resolving",
                                          !.player = voice_client]]
            /\ players' = [players EXCEPT
                             ![voice_client].text_channel = TRUE]
            /\ UNCHANGED <<voice_client, nplayers>>
  /\ timers' = MarkReoccupied(timers, players')
  /\ UNCHANGED <<members, dbAutoplay, srvTrack, events, handlers, searches,
                 nextTrack, advances>>
  /\ Quiet

\* play (bot.py 348-354): connect() has returned; the autoplay flag of the
\* new Player is loaded from the database.
PlayConnected(s) ==
  /\ cmd[s].pc = "connecting"
  /\ players[cmd[s].player].connected
  /\ players' = [players EXCEPT ![cmd[s].player] =
                   [WithDefaultVolume(@, default_volume) EXCEPT
                      !.autoplay_enabled = IF dbAutoplay THEN "on" ELSE "off",
                      !.text_channel = TRUE]]
  /\ cmd' = [cmd EXCEPT ![s].pc = "resolving"]
  /\ UNCHANGED <<members, voice_client, nplayers, dbAutoplay, srvTrack,
                 events, handlers, searches, timers, nextTrack, advances>>
  /\ Quiet

\* play (bot.py 348): the session was disconnected during the handshake and
\* connect() raises; the command ends.
PlayConnectFailed(s) ==
  /\ cmd[s].pc = "connecting"
  /\ ~players[cmd[s].player].voice
  /\ cmd' = [cmd EXCEPT ![s] = NoCommand]
  /\ UNCHANGED <<members, voice_client, nplayers, players, dbAutoplay,
                 srvTrack, events, handlers, searches, timers, nextTrack,
                 advances>>
  /\ Quiet

\* A put that inserts at the front of the queue.
PutFront(pl, t) ==
  [pl EXCEPT !.queue = <<t>> \o @, !.enqueued = Append(@, t)]

\* await player.queue.put_wait(t) on Player record pl (bot.py 426).
Put(pl, t) ==
  [pl EXCEPT !.queue = Append(@, t), !.enqueued = Append(@, t)]

\* play (bot.py 359-426): the query is resolved to one track, which is put
\* on the queue of the command's player; the reply is then awaited.
PlayQueued(s) ==
  /\ cmd[s].pc = "resolving"
  /\ nextTrack <= MaxTracks
  /\ players' = [players EXCEPT ![cmd[s].player] = Put(@, nextTrack)]
  /\ nextTrack' = nextTrack + 1
  /\ cmd' = [cmd EXCEPT ![s].pc = "queued",
                        ![s].notice = IF Playing(cmd[s].player)
                                        THEN "Added to Queue"
                                        ELSE "Now Playing"]
  /\ UNCHANGED <<members, voice_client, nplayers, dbAutoplay, srvTrack,
                 events, handlers, searches, timers, advances>>
  /\ Quiet

\* play (bot.py 412-423): the query is resolved to a playlist, here of two
\* tracks, which are put on the queue in order; "Playlist Added" is sent.
PlayQueuedPlaylist(s) ==
  /\ cmd[s].pc = "resolving"
  /\ nextTrack + 1 <= MaxTracks
  /\ players' = [players EXCEPT ![cmd[s].player] =
                   Put(Put(@, nextTrack), nextTrack + 1)]
  /\ nextTrack' = nextTrack + 2
  /\ cmd' = [cmd EXCEPT ![s].pc = "queued", ![s].notice = "Playlist Added"]
  /\ UNCHANGED <<members, voice_client, nplayers, dbAutoplay, srvTrack,
                 events, handlers, searches, timers, advances>>
  /\ Quiet

\* play (bot.py 408-409): the resolver found nothing.
PlayNotFound(s) ==
  /\ cmd[s].pc = "resolving"
  /\ cmd' = [cmd EXCEPT ![s] = NoCommand]
  /\ UNCHANGED <<members, voice_client, nplayers, players, dbAutoplay,
                 srvTrack, events, handlers, searches, timers, nextTrack,
                 advances>>
  /\ Silent
  /\ Unresolved
  /\ lastCmd' = [NoCmd EXCEPT !.op = "play", !.reply = "No tracks found",
                              !.session = cmd[s].player,
                              !.kept = (players' = players
                                        /\ srvTrack' = srvTrack)]

\* The track started last: what Player.play() restores as the loaded track
\* when the server rejects the call.
LastStarted(pl) ==
  IF pl.history = <<>> THEN NoTrack ELSE pl.history[Len(pl.history)]

\* A rejected play call that also disconnects the Player.
RejectedTearsDown(p, pl) ==
  /\ players' = [pl EXCEPT ![p].current = NoTrack, ![p].connected = FALSE,
                           ![p].voice = FALSE]
  /\ UNCHANGED <<srvTrack, events>>

\* Player.play(t) on Player p, rejected by the Lavalink server: the Player
\* has no current track, the server plays what it played, and the call
\* raises LavalinkException.
Rejected(p, pl) ==
  /\ players' = [pl EXCEPT ![p].current = NoTrack,
                           ![p].loaded = LastStarted(pl[p])]
  /\ UNCHANGED <<srvTrack, events>>

\* play (bot.py 454-462): the play call of the command is rejected, which
\* the command reports as a playback error.
PlayRejected(s) ==
  /\ cmd[s].pc = "queued"
  /\ ~Playing(cmd[s].player)
  /\ CanGet(players[cmd[s].player])
  /\ Rejected(cmd[s].player, [players EXCEPT ![cmd[s].player] = AfterGet(@)])
  /\ cmd' = [cmd EXCEPT ![s] = NoCommand]
  /\ lastCmd' = [NoCmd EXCEPT !.op = "play", !.session = cmd[s].player,
                              !.reply = "Playback error occurred",
                              !.kept = FALSE]
  /\ UNCHANGED <<members, voice_client, nplayers, dbAutoplay, handlers,
                 searches, timers, nextTrack, advances>>
  /\ Silent /\ Unresolved

\* play (bot.py 454-456): start playing if not already.  An empty queue
\* makes get() raise, which the command reports (bot.py 463).
PlayFinish(s) ==
  /\ cmd[s].pc = "queued"
  /\ LET p == cmd[s].player
     IN IF ~Playing(p) /\ CanGet(players[p])
          THEN Play(p, GetTrack(players[p]),
                    [players EXCEPT ![p] = AfterGet(@)])
          ELSE UNCHANGED <<players, srvTrack, events>>
  /\ cmd' = [cmd EXCEPT ![s] = NoCommand]
  /\ UNCHANGED <<members, voice_client, nplayers, dbAutoplay, handlers,
                 searches, timers, nextTrack, advances>>
  /\ Quiet

\* playlist load (bot.py 940-962): the requester is in a voice channel and
\* the stored playlist has tracks; the command connects when there is no
\* voice client and stores the text channel on the Player.
PlaylistLoadStart(s, c) ==
  /\ cmd[s].pc = "idle"
  /\ s = 1 \/ cmd[1].pc # "idle"
  /\ members[c] > 0
  /\ IF voice_client = NoPlayer
       THEN /\ Connect(c)
            /\ cmd' = [cmd EXCEPT ![s] = [NoCommand EXCEPT
                                          !.pc = "load-connecting",
                                          !.player = nplayers + 1]]
       ELSE /\ cmd' = [cmd EXCEPT ![s] = [NoCommand EXCEPT
                                          !.pc = "loading",
                                          !.player = voice_client]]
            /\ players' = [players EXCEPT
                             ![voice_client].text_channel = TRUE]
            /\ UNCHANGED <<voice_client, nplayers>>
  /\ timers' = MarkReoccupied(timers, players')
  /\ UNCHANGED <<members, dbAutoplay, srvTrack, events, handlers, searches,
                 nextTrack, advances>>
  /\ Quiet

\* playlist load (bot.py 956-962): connect() has returned; no autoplay flag
\* is set on the new Player.
PlaylistLoadConnected(s) ==
  /\ cmd[s].pc = "load-connecting"
  /\ players[cmd[s].player].connected
  /\ players' = [players EXCEPT ![cmd[s].player] =
                   [WithDefaultVolume(@, default_volume) EXCEPT
                      !.text_channel = TRUE]]
  /\ cmd' = [cmd EXCEPT ![s].pc = "loading"]
  /\ UNCHANGED <<members, voice_client, nplayers, dbAutoplay, srvTrack,
                 events, handlers, searches, timers, nextTrack, advances>>
  /\ Quiet

RECURSIVE PutAll(_, _, _)
PutAll(pl, t, n) == IF n = 0 THEN pl ELSE PutAll(Put(pl, t), t + 1, n - 1)

\* playlist load (bot.py 966-981): n of the stored tracks were found by
\* their searches and put on the queue; "Playlist Loaded" is sent.
PlaylistLoaded(s, n) ==
  /\ cmd[s].pc = "loading"
  /\ nextTrack + n - 1 <= MaxTracks
  /\ players' = [players EXCEPT ![cmd[s].player] = PutAll(@, nextTrack, n)]
  /\ nextTrack' = nextTrack + n
  /\ cmd' = [cmd EXCEPT ![s].pc = "loaded", ![s].notice = "Playlist Loaded"]
  /\ UNCHANGED <<members, voice_client, nplayers, dbAutoplay, srvTrack,
                 events, handlers, searches, timers, advances>>
  /\ Quiet

\* playlist load (bot.py 984-986): the first item is taken and played when
\* the player is not playing and the queue has items.
PlaylistLoadFinish(s) ==
  /\ cmd[s].pc = "loaded"
  /\ LET p == cmd[s].player
     IN IF ~Playing(p) /\ players[p].queue # <<>>
          THEN Play(p, GetTrack(players[p]),
                    [players EXCEPT ![p] = AfterGet(@)])
          ELSE UNCHANGED <<players, srvTrack, events>>
  /\ cmd' = [cmd EXCEPT ![s] = NoCommand]
  /\ UNCHANGED <<members, voice_client, nplayers, dbAutoplay, handlers,
                 searches, timers, nextTrack, advances>>
  /\ Quiet

\* A skip that takes the next item off the queue and plays it itself.
SkipAdvancing ==
  /\ voice_client # NoPlayer
  /\ Playing(voice_client)
  /\ players[voice_client].queue # <<>>
  /\ Play(voice_client, Head(players[voice_client].queue),
          [players EXCEPT ![voice_client].queue = Tail(@)])
  /\ advances' = [advances EXCEPT ![players[voice_client].current] = @ + 1]
  /\ UNCHANGED <<members, voice_client, nplayers, dbAutoplay, handlers,
                 searches, timers, cmd, nextTrack>>
  /\ Quiet

\* skip (bot.py 491-498): Player.skip() forgets the loaded track and stops
\* the track on the server; the queue is not touched.
Skip ==
  /\ voice_client # NoPlayer
  /\ Playing(voice_client)
  /\ srvTrack # NoTrack => CanEmit
  /\ events' = EndedEvents("stopped")
  /\ srvTrack' = NoTrack
  /\ players' = [players EXCEPT ![voice_client].loaded = NoTrack]
  /\ UNCHANGED <<members, voice_client, nplayers, dbAutoplay,
                 handlers, searches, timers, cmd, nextTrack, advances>>
  /\ Quiet

\* stop (bot.py 501-509): the queue is cleared and Player.stop(), which is
\* skip(), stops the track on the server.
Stop ==
  /\ voice_client # NoPlayer
  /\ srvTrack # NoTrack => CanEmit
  /\ events' = EndedBy("stopped", "stop")
  /\ srvTrack' = NoTrack
  /\ players' = [players EXCEPT ![voice_client].queue = <<>>,
                                ![voice_client].loaded = NoTrack,
                                ![voice_client].dequeued = FALSE]
  /\ UNCHANGED <<members, voice_client, nplayers, dbAutoplay,
                 handlers, searches, timers, cmd, nextTrack, advances>>
  /\ Quiet

\* The check of the volume and setvolume commands that rejects nothing.
AnyVolume(volume) == TRUE

\* volume < 0 or volume > 100 negated (bot.py 602, 1056).
VolumeAccepted(volume) == ~(volume < MinVolume \/ volume > MaxVolume)

\* volume (bot.py 595-606).
Volume(volume) ==
  /\ IF voice_client = NoPlayer
       THEN /\ UNCHANGED players
            /\ lastCmd' = [NoCmd EXCEPT !.op = "volume", !.pos = volume,
                             !.reply = "I'm not in a voice channel!"]
       ELSE IF ~VolumeAccepted(volume)
       THEN /\ UNCHANGED players
            /\ lastCmd' = [NoCmd EXCEPT !.op = "volume", !.pos = volume,
                             !.session = voice_client,
                             !.reply = "Volume must be between 0 and 100!"]
       ELSE /\ players' = [players EXCEPT ![voice_client].volume = volume]
            /\ lastCmd' = [NoCmd EXCEPT !.op = "volume", !.pos = volume,
                             !.session = voice_client,
                             !.reply = "Volume set",
                             !.kept = (players' = players)]
  /\ UNCHANGED <<members, voice_client, nplayers, dbAutoplay, srvTrack,
                 events, handlers, searches, timers, cmd, nextTrack, advances>>
  /\ Silent
  /\ Unresolved

\* setvolume (bot.py 1047-1060) by a member who has or lacks the Manage
\* Server permission; db.set_default_volume (database.py 113-123).
SetVolume(volume, manage_guild) ==
  /\ IF ~manage_guild
       THEN /\ UNCHANGED default_volume
            /\ lastCmd' = [NoCmd EXCEPT !.op = "setvolume", !.pos = volume,
                             !.reply = "You need Manage Server permission"]
       ELSE IF ~VolumeAccepted(volume)
       THEN /\ UNCHANGED default_volume
            /\ lastCmd' = [NoCmd EXCEPT !.op = "setvolume", !.pos = volume,
                             !.reply = "Volume must be between 0 and 100!"]
       ELSE /\ default_volume' = volume
            /\ lastCmd' = [NoCmd EXCEPT !.op = "setvolume", !.pos = volume,
                             !.reply = "Default volume set",
                             !.kept = (default_volume' = default_volume)]
  /\ UNCHANGED <<members, voice_client, nplayers, players, dbAutoplay,
                 srvTrack, events, handlers, searches, timers, cmd, nextTrack,
                 advances>>
  /\ UNCHANGED <<YTDLP_ENABLED, YTDLP_CACHE, now, resolving, lastPut>>
  /\ lastRes' = NoRes
  /\ Silent

\* Every order of the elements of the set S.
RECURSIVE Orders(_)
Orders(S) ==
  IF S = {} THEN {<<>>}
  ELSE UNION {{<<x>> \o r : r \in Orders(S \ {x})} : x \in S}

\* A shuffle that may lose the first item.
ShuffledOrShorter(q) ==
  {[i \in 1..Len(q) |-> q[o[i]]] : o \in Orders(1..Len(q))} \cup {Tail(q)}

\* queue.shuffle() (bot.py 618): random.shuffle of the items; every order
\* of the same items is a possible outcome.
Shuffled(q) == {[i \in 1..Len(q) |-> q[o[i]]] : o \in Orders(1..Len(q))}

\* shuffle (bot.py 609-619).
Shuffle ==
  /\ IF voice_client = NoPlayer
       THEN /\ UNCHANGED players
            /\ lastCmd' = [NoCmd EXCEPT !.op = "shuffle",
                             !.reply = "I'm not in a voice channel!"]
       ELSE IF players[voice_client].queue = <<>>
       THEN /\ UNCHANGED players
            /\ lastCmd' = [NoCmd EXCEPT !.op = "shuffle",
                             !.reply = "The queue is empty!",
                             !.session = voice_client]
       ELSE \E r \in Shuffled(players[voice_client].queue) :
              /\ players' = [players EXCEPT ![voice_client].queue = r]
              /\ lastCmd' = [NoCmd EXCEPT !.op = "shuffle",
                               !.reply = "Queue shuffled!",
                               !.session = voice_client,
                               !.shown = players[voice_client].queue,
                               !.kept = (players' = [players EXCEPT
                                           ![voice_client].queue = r])]
  /\ UNCHANGED <<members, voice_client, nplayers, dbAutoplay, srvTrack,
                 events, handlers, searches, timers, cmd, nextTrack, advances>>
  /\ Silent
  /\ Unresolved

\* A clear that stops the player as the stop command does.
ClearStops ==
  /\ voice_client # NoPlayer
  /\ srvTrack # NoTrack => CanEmit
  /\ events' = EndedBy("stopped", "stop")
  /\ srvTrack' = NoTrack
  /\ players' = [players EXCEPT ![voice_client].queue = <<>>,
                                ![voice_client].loaded = NoTrack,
                                ![voice_client].dequeued = FALSE]
  /\ lastCmd' = [NoCmd EXCEPT !.op = "clear", !.reply = "Queue cleared!",
                              !.session = voice_client]
  /\ UNCHANGED <<members, voice_client, nplayers, dbAutoplay, handlers,
                 searches, timers, cmd, nextTrack, advances>>
  /\ Silent
  /\ Unresolved

\* clear (bot.py 690-697): the queue of the voice client is emptied; the
\* player is not touched. Without a voice client the command only replies.
Clear ==
  /\ IF voice_client = NoPlayer
       THEN /\ UNCHANGED players
            /\ lastCmd' = [NoCmd EXCEPT !.op = "clear",
                             !.reply = "I'm not in a voice channel!"]
       ELSE /\ players' = [players EXCEPT ![voice_client].queue = <<>>,
                                         ![voice_client].dequeued = FALSE]
            /\ lastCmd' = [NoCmd EXCEPT !.op = "clear",
                             !.reply = "Queue cleared!",
                             !.session = voice_client,
                             !.count = Len(players[voice_client].queue)]
  /\ UNCHANGED <<members, voice_client, nplayers, dbAutoplay, srvTrack,
                 events, handlers, searches, timers, cmd, nextTrack, advances>>
  /\ Silent
  /\ Unresolved

\* A loop command whose cycle leaves out the queue mode.
LoopModeTwoWay(mode, arg) ==
  CASE arg = "" -> (IF mode = "normal" THEN "loop" ELSE "normal")
    [] arg \in {"off", "none", "disable"} -> "normal"
    [] arg \in {"track", "song", "one"} -> "loop"
    [] arg \in {"queue", "all"} -> "loop_all"
    [] OTHER -> mode

\* The queue mode the loop command selects (bot.py 631-652): without an
\* argument the next mode of the cycle, with one the mode it names, and
\* the mode as it is for any other word.
LoopMode(mode, arg) ==
  CASE arg = "" ->
         (CASE mode = "normal" -> "loop"
            [] mode = "loop" -> "loop_all"
            [] OTHER -> "normal")
    [] arg \in {"off", "none", "disable"} -> "normal"
    [] arg \in {"track", "song", "one"} -> "loop"
    [] arg \in {"queue", "all"} -> "loop_all"
    [] OTHER -> mode

\* The arguments tried: none (""), one word per mode, and an invalid word.
LoopArgs == {"", "off", "track", "queue", "shuffle"}

\* The reply of the loop command (bot.py 634-654).
LoopReply(mode, arg) ==
  IF arg \notin {"", "off", "none", "disable", "track", "song", "one",
                 "queue", "all"}
    THEN "Invalid mode!"
    ELSE CASE LoopMode(mode, arg) = "normal" -> "Looping: Off"
           [] LoopMode(mode, arg) = "loop" -> "Looping: Current Track"
           [] OTHER -> "Looping: Queue"

\* loop (bot.py 622-654) with argument arg ("": no argument given).
Loop(arg) ==
  /\ voice_client # NoPlayer
  /\ players' = [players EXCEPT ![voice_client].mode = LoopMode(@, arg)]
  /\ lastCmd' = [NoCmd EXCEPT !.op = "loop", !.arg = arg,
                              !.session = voice_client,
                              !.reply = LoopReply(players[voice_client].mode,
                                                  arg),
                              !.kept = (players' = players)]
  /\ UNCHANGED <<members, voice_client, nplayers, dbAutoplay, srvTrack,
                 events, handlers, searches, timers, cmd, nextTrack, advances>>
  /\ Silent
  /\ Unresolved

\* The track on the server plays to its end.
TrackFinish ==
  /\ srvTrack # NoTrack
  /\ voice_client # NoPlayer => ~players[voice_client].paused
  /\ CanEmit
  /\ events' = EndedEvents("finished")
  /\ srvTrack' = NoTrack
  /\ UNCHANGED <<members, voice_client, nplayers, players, dbAutoplay,
                 handlers, searches, timers, cmd, nextTrack, advances>>
  /\ Quiet

\* wavelink receives a track-end event: the guild's registered player loses
\* _current unless the reason is "replaced", and on_wavelink_track_end is
\* dispatched; without a registered player the handler returns at once
\* (bot.py 213-214).
WsReceive ==
  /\ events # <<>>
  /\ LET e == Head(events)
     IN IF voice_client = NoPlayer
          THEN UNCHANGED <<players, handlers>>
          ELSE /\ Len(handlers) < MaxEvents
               /\ players' = IF e.reason = "replaced" THEN players
                     ELSE [players EXCEPT ![voice_client].current = NoTrack]
               /\ handlers' = Append(handlers,
                     [player |-> voice_client, track |-> e.track,
                      reason |-> e.reason, by |-> e.by])
  /\ events' = Tail(events)
  /\ UNCHANGED <<members, voice_client, nplayers, dbAutoplay, srvTrack,
                 searches, timers, cmd, nextTrack, advances>>
  /\ Quiet

\* A timer is pending for Player p.
TimerPending(ts, p) == \E i \in 1..Len(ts) : ts[i].vc = p

\* on_wavelink_track_end (bot.py 216-219): in 24/7 mode with an empty queue
\* and no autoplay attribute the handler returns.
StaysSilent(p) ==
  /\ TwentyFourSeven(p)
  /\ players[p].queue = <<>>
  /\ players[p].autoplay_enabled = "unset"

\* on_wavelink_track_end (bot.py 222): the handler plays the next queued
\* track; the reason of the event is not looked at.
AdvancesQueue(h) ==
  /\ ~StaysSilent(h.player)
  /\ players[h.player].queue # <<>>

\* A handler that searches without looking at the queue.
StartsAutoplayAnyQueue(h) ==
  /\ ~StaysSilent(h.player)
  /\ AutoplayEnabled(h.player)
  /\ h.track # NoTrack

\* on_wavelink_track_end (bot.py 244): the handler searches a related track.
StartsAutoplay(h) ==
  /\ ~StaysSilent(h.player)
  /\ players[h.player].queue = <<>>
  /\ AutoplayEnabled(h.player)
  /\ h.track # NoTrack

\* The oldest dispatched on_wavelink_track_end task runs up to its first
\* await (bot.py 209-248).
TrackEndRun ==
  /\ handlers # <<>>
  /\ LET h == Head(handlers)
         p == h.player
         q == players[p].queue
     IN /\ IF AdvancesQueue(h)
             THEN /\ Play(p, GetTrack(players[p]),
                          [players EXCEPT ![p] = AfterGet(@)])
                  /\ advances' = [advances EXCEPT ![h.track] = @ + 1]
             ELSE UNCHANGED <<players, srvTrack, events, advances>>
        /\ searches' = IF StartsAutoplay(h)
                         THEN searches \cup {[player |-> p, reason |-> h.reason,
                                               by |-> h.by]}
                         ELSE searches
        /\ lastEnd' = [player |-> p, reason |-> h.reason, by |-> h.by,
                       track |-> h.track, mode |-> players[p].mode,
                       autoplay |-> AutoplayEnabled(p),
                       kept |-> (players'[p].queue = q), results |-> 0,
                       next |-> IF q = <<>> THEN NoTrack ELSE Head(q),
                       started |-> IF AdvancesQueue(h)
                                     THEN GetTrack(players[p]) ELSE NoTrack,
                       searching |-> StartsAutoplay(h),
                       exhausted |-> (q = <<>> /\ ~AutoplayEnabled(p)),
                       is247 |-> TwentyFourSeven(p),
                       playing |-> players'[p].current # NoTrack,
                       armed |-> TimerPending(timers, p),
                       searched |-> FALSE, second |-> NoTrack,
                       failed |-> FALSE,
                       notice |-> IF AdvancesQueue(h)
                                       /\ players[p].text_channel
                                    THEN "Now Playing" ELSE "none"]
  /\ handlers' = Tail(handlers)
  /\ lastFire' = NoFire
  /\ lastCmd' = NoCmd /\ Unresolved
  /\ UNCHANGED <<members, voice_client, nplayers, dbAutoplay, timers, cmd,
                 nextTrack>>

\* on_wavelink_track_end (bot.py 222-242): the play call for the next
\* queued track is rejected; the handler logs the error and ends.
TrackEndRejected ==
  /\ handlers # <<>>
  /\ AdvancesQueue(Head(handlers))
  /\ LET h == Head(handlers)
         p == h.player
     IN /\ Rejected(p, [players EXCEPT ![p] = AfterGet(@)])
        /\ lastEnd' = [NoEnd EXCEPT !.player = p, !.reason = h.reason,
                                    !.by = h.by, !.track = h.track,
                                    !.mode = players[p].mode,
                                    !.next = Head(players[p].queue),
                                    !.kept = FALSE, !.failed = TRUE,
                                    !.is247 = TwentyFourSeven(p),
                                    !.armed = TimerPending(timers, p)]
  /\ handlers' = Tail(handlers)
  /\ lastFire' = NoFire
  /\ lastCmd' = NoCmd /\ Unresolved
  /\ UNCHANGED <<members, voice_client, nplayers, dbAutoplay, searches,
                 timers, cmd, nextTrack, advances>>

\* The tracks of an autoplay search with n results, best first; none of
\* them has been in the session.
Results(n) == [i \in 1..n |-> nextTrack + (i - 1)]

\* A choice of the best result.
PickFirst(tracks) == tracks[1]

\* tracks[1] (bot.py 252): the second result.
Pick(tracks) == tracks[2]

\* The autoplay search returns n results (bot.py 248-252): with more than
\* one the second is played; an error counts as none (bot.py 262).
AutoplayResult(n) ==
  /\ \E a \in searches :
       /\ searches' = searches \ {a}
       /\ IF n > 1
            THEN /\ nextTrack + 1 <= MaxTracks
                 /\ Play(a.player, Pick(Results(n)), players)
                 /\ nextTrack' = nextTrack + 2
                 /\ lastEnd' = [NoEnd EXCEPT !.player = a.player,
                                  !.reason = a.reason, !.by = a.by,
                                  !.searched = TRUE, !.results = n,
                                  !.second = Results(n)[2],
                                  !.started = Pick(Results(n)),
                                  !.is247 = TwentyFourSeven(a.player),
                                  !.playing = TRUE,
                                  !.notice =
                                     IF players[a.player].text_channel
                                       THEN "Autoplay" ELSE "none"]
            ELSE /\ lastEnd' = [NoEnd EXCEPT !.player = a.player,
                                  !.reason = a.reason, !.by = a.by,
                                  !.searched = TRUE, !.results = n,
                                  !.is247 = TwentyFourSeven(a.player),
                                  !.playing =
                                     (players[a.player].current # NoTrack),
                                  !.armed = TimerPending(timers, a.player)]
                 /\ UNCHANGED <<players, srvTrack, events, nextTrack>>
  /\ lastFire' = NoFire
  /\ lastCmd' = NoCmd /\ Unresolved
  /\ UNCHANGED <<members, voice_client, nplayers, dbAutoplay, handlers,
                 timers, cmd, advances>>

\* -------------------------------------------------------- queue commands
\* The number of upcoming items the queue command lists (bot.py 536).
QueuePage == 10

\* player.queue[:n]
FirstItems(q, n) == SubSeq(q, 1, IF Len(q) < n THEN Len(q) ELSE n)

\* queue (bot.py 512-561): the reply lists the first items of the queue in
\* queue order and says how many there are.
ShowQueue ==
  /\ voice_client # NoPlayer
  /\ LET pl == players[voice_client]
     IN lastCmd' =
          IF pl.current = NoTrack /\ pl.queue = <<>>
            THEN [NoCmd EXCEPT !.op = "queue", !.reply = "empty"]
            ELSE [NoCmd EXCEPT !.op = "queue", !.reply = "listed",
                               !.count = Len(pl.queue),
                               !.shown = FirstItems(pl.queue, QueuePage)]
  /\ Silent /\ Unresolved
  /\ UNCHANGED <<members, voice_client, nplayers, players, dbAutoplay,
                 srvTrack, events, handlers, searches, timers, cmd,
                 nextTrack, advances>>

\* A range test that takes the position as 0-based.
InRangeFromZero(position, count) == position >= 0 /\ position <= count

\* not (position < 1 or position > queue.count) (bot.py 683)
InRange(position, count) == position >= 1 /\ position <= count

\* queue.delete(index): del items[index], where a negative index counts
\* from the end of the list.
Delete(q, index) ==
  LET i == IF index < 0 THEN Len(q) + index + 1 ELSE index + 1
  IN SubSeq(q, 1, i - 1) \o SubSeq(q, i + 1, Len(q))

\* remove (bot.py 673-687) with the 1-based position given.
Remove(position) ==
  /\ voice_client # NoPlayer
  /\ LET q == players[voice_client].queue
         said == [NoCmd EXCEPT !.op = "remove", !.pos = position,
                               !.count = Len(q)]
     IN IF q = <<>>
          THEN /\ lastCmd' = [said EXCEPT !.reply = "empty"]
               /\ UNCHANGED players
          ELSE IF ~InRange(position, Len(q))
          THEN /\ lastCmd' = [said EXCEPT !.reply = "range", !.lo = 1,
                                          !.hi = Len(q)]
               /\ UNCHANGED players
          ELSE /\ players' = [players EXCEPT ![voice_client].queue =
                                Delete(q, position - 1)]
               /\ lastCmd' = [said EXCEPT !.reply = "removed",
                                          !.kept = (players' = players)]
  /\ Silent /\ Unresolved
  /\ UNCHANGED <<members, voice_client, nplayers, dbAutoplay, srvTrack,
                 events, handlers, searches, timers, cmd, nextTrack,
                 advances>>

\* ----------------------------------------------------- playback controls
\* The session commands reply and change nothing but the Player.
Controls ==
  /\ Silent /\ Unresolved
  /\ UNCHANGED <<members, voice_client, nplayers, dbAutoplay, srvTrack,
                 events, handlers, searches, timers, cmd, nextTrack, advances>>

\* ctx.voice_client.current is set.
Loaded == voice_client # NoPlayer /\ players[voice_client].current # NoTrack

\* ctx.voice_client.paused
Paused == voice_client # NoPlayer /\ players[voice_client].paused

\* What pause and resume saw before they acted.
Seen(op) ==
  [NoCmd EXCEPT !.op = op, !.wasLoaded = Loaded, !.wasPaused = Paused]

\* A guard of pause that lets only a track that is not paused through.
PausableOnce == voice_client # NoPlayer /\ Playing(voice_client) /\ ~Paused

\* pause (bot.py 471): ctx.voice_client and ctx.voice_client.playing.
Pausable == voice_client # NoPlayer /\ Playing(voice_client)

\* pause (bot.py 468-475).
Pause ==
  /\ IF Pausable
       THEN /\ players' = [players EXCEPT ![voice_client].paused = TRUE]
            /\ lastCmd' = [Seen("pause") EXCEPT !.reply = "Paused!",
                                                !.kept = (players' = players)]
       ELSE /\ UNCHANGED players
            /\ lastCmd' = [Seen("pause") EXCEPT !.reply = "Nothing is playing!"]
  /\ Controls

\* resume (bot.py 478-488).
Resume ==
  /\ IF voice_client = NoPlayer
       THEN /\ UNCHANGED players
            /\ lastCmd' = [Seen("resume") EXCEPT
                              !.reply = "I'm not in a voice channel!"]
       ELSE IF ~Paused
       THEN /\ UNCHANGED players
            /\ lastCmd' = [Seen("resume") EXCEPT
                              !.reply = "The music is not paused!"]
       ELSE /\ players' = [players EXCEPT ![voice_client].paused = FALSE]
            /\ lastCmd' = [Seen("resume") EXCEPT !.reply = "Resumed!",
                                                 !.kept = FALSE]
  /\ Controls

\* track.length of the tracks, in milliseconds.
Length(t) == IF t = 1 THEN 999 ELSE IF t = 2 THEN 2000 ELSE 2999

\* A duration in seconds that rounds up.
SecondsUp(ms) == (ms + 999) \div 1000

\* current.length // 1000 (bot.py 664).
Seconds(ms) == ms \div 1000

\* seek (bot.py 657-670): position in seconds.
Seek(position) ==
  /\ lastCmd' =
       IF ~Loaded
         THEN [Seen("seek") EXCEPT !.pos = position,
                                   !.reply = "Nothing is playing!"]
       ELSE LET duration == Seconds(Length(players[voice_client].current))
            IN  IF position < 0 \/ position > duration
                  THEN [Seen("seek") EXCEPT
                          !.pos = position, !.lo = 0, !.hi = duration,
                          !.length = Length(players[voice_client].current),
                          !.reply = "Position must be between"]
                  ELSE [Seen("seek") EXCEPT
                          !.pos = position,
                          !.length = Length(players[voice_client].current),
                          !.sought = position * 1000,
                          !.reply = "Seeked to"]
  /\ UNCHANGED players
  /\ Controls

\* ------------------------------------------------ the resolution cache
\* A query is a sequence of symbols: letters, blanks, and the fixed prefixes
\* that the play command tells apart.
YouTubeHead == "https://youtube.com/watch?v="
SpotifyHead == "https://open.spotify.com/track/"
OtherHead == "https://example.com/"
ScPrefix == "scsearch:"
YtSearch1 == "ytsearch1:"
UrlHeads == {YouTubeHead, SpotifyHead, OtherHead}
Blank == " "
Letters == {"a", "A"}

\* str.lower() on one symbol and on a query.
Lower(c) == IF c = "A" THEN "a" ELSE c

LowerAll(q) == [i \in 1..Len(q) |-> Lower(q[i])]

\* str.strip(): blanks off both ends.
RECURSIVE StripLeft(_)
StripLeft(q) == IF q # <<>> /\ Head(q) = Blank THEN StripLeft(Tail(q)) ELSE q

RECURSIVE StripRight(_)
StripRight(q) ==
  IF q # <<>> /\ q[Len(q)] = Blank
  THEN StripRight(SubSeq(q, 1, Len(q) - 1))
  ELSE q

Strip(q) == StripRight(StripLeft(q))

\* cache_key = query.lower().strip() (bot.py 29).
Normalize(query) == Strip(LowerAll(query))

\* config.YTDLP_CACHE_TTL, in seconds (config.py 36).
YTDLP_CACHE_TTL == 1800

\* The clock is read every half time-to-live, up to MaxTime.
TickLen == YTDLP_CACHE_TTL \div 2

Urls == {"u1", "u2"}
NoEntry == [url |-> NoUrl, expiry |-> 0]

\* YTDLP_CACHE.get(cache_key) (bot.py 32).
Cached(cache, key) == IF key \in DOMAIN cache THEN cache[key] ELSE NoEntry

\* A reading of the freshness test that still serves an entry at its expiry.
FreshAtExpiry(entry, t) == entry.expiry >= t

\* cached[1] > now (bot.py 33).
Fresh(entry, t) == entry.expiry > t

\* The cache read of yt_dlp_extract (bot.py 29-34): the url, or NoUrl.
CacheGet(cache, query, t) ==
  LET cached == Cached(cache, Normalize(query))
  IN  IF cached # NoEntry /\ Fresh(cached, t) THEN cached.url ELSE NoUrl

\* A write that files the entry under the query as it was typed.
CachePutRaw(cache, query, url, t) ==
  [k \in DOMAIN cache \cup {query} |->
     IF k = query THEN [url |-> url, expiry |-> t + YTDLP_CACHE_TTL]
     ELSE cache[k]]

\* YTDLP_CACHE[cache_key] = (url, now + config.YTDLP_CACHE_TTL) (bot.py 68),
\* where now was read at the start of the call.
CachePut(cache, query, url, t) ==
  [k \in DOMAIN cache \cup {Normalize(query)} |->
     IF k = Normalize(query) THEN [url |-> url, expiry |-> t + YTDLP_CACHE_TTL]
     ELSE cache[k]]

\* ------------------------------------------ the resolution pipeline of play
\* query = query.strip(); the first URL in it replaces it (bot.py 362-367).
FirstUrl(q) == CHOOSE i \in 1..Len(q) :
                 q[i] \in UrlHeads /\ \A j \in 1..(i - 1) : q[j] \notin UrlHeads

UrlEnd(q, i) ==
  IF \E j \in (i + 1)..Len(q) : q[j] = Blank
  THEN (CHOOSE j \in (i + 1)..Len(q) :
          q[j] = Blank /\ \A k \in (i + 1)..(j - 1) : q[k] # Blank) - 1
  ELSE Len(q)

Sanitize(raw) ==
  LET q == Strip(raw)
  IN  IF \E i \in 1..Len(q) : q[i] \in UrlHeads
      THEN SubSeq(q, FirstUrl(q), UrlEnd(q, FirstUrl(q)))
      ELSE q

\* SPOTIFY_REGEX.match(query) (bot.py 73-75, 370).
IsSpotify(q) == Len(q) >= 2 /\ q[1] = SpotifyHead /\ q[2] \in Letters

\* query.startswith("scsearch:") (bot.py 376).
IsScSearch(q) == q # <<>> /\ q[1] = ScPrefix

\* query.startswith(("http://", "https://")) (bot.py 380).
IsUrl(q) == q # <<>> /\ q[1] \in UrlHeads

\* "youtube.com" in query or "youtu.be" in query (bot.py 382).
IsYouTube(q) == \E i \in 1..Len(q) : q[i] = YouTubeHead

\* The branch of the play command a sanitized query takes (bot.py 373-406).
\* A dispatch without the Spotify branch, every url going to the extractor.
KindByScheme(q) ==
  IF IsScSearch(q) THEN "scsearch"
  ELSE IF IsUrl(q) THEN "youtube"
  ELSE "text"

Kind(q) ==
  IF IsSpotify(q) THEN "spotify"
  ELSE IF IsScSearch(q) THEN "scsearch"
  ELSE IF IsUrl(q) THEN (IF IsYouTube(q) THEN "youtube" ELSE "url")
  ELSE "text"

\* What the user may type.
RawQueries ==
  { <<"a">>, <<Blank, "A", Blank>>,
    <<ScPrefix, Blank, "a">>,
    <<SpotifyHead, "a">>,
    <<YouTubeHead, "a">>,
    <<"a", Blank, YouTubeHead, "A", Blank, "a">>,
    <<OtherHead, "a">> }

\* What one Playable.search call can do: tracks, nothing, or an exception.
SearchOutcomes ==
  {"tracks", "empty", "LavalinkException", "LavalinkLoadException", "Exception"}

\* The reply of the except clause that catches the exception (bot.py 458-465).
ErrorReply(out) ==
  CASE out = "LavalinkLoadException" -> "Failed to load track"
    [] out = "LavalinkException" -> "Playback error occurred"
    [] OTHER -> "An unexpected error occurred"

\* calls: the backends called so far; outs: what each finished call gave.
Idle == [stage |-> "idle", kind |-> "none", query |-> <<>>, arg |-> <<>>,
         at |-> 0, calls |-> <<>>, outs |-> <<>>]

NoPut == [query |-> <<>>, url |-> NoUrl, expiry |-> 0]

\* The state of the resolution before any command.
NotResolving ==
  /\ YTDLP_CACHE = <<>>
  /\ now = 0
  /\ resolving = Idle
  /\ lastPut = NoPut
  /\ lastRes = NoRes

\* The step belongs to track resolution only.
Resolves ==
  /\ Silent
  /\ lastCmd' = NoCmd
  /\ UNCHANGED <<members, voice_client, nplayers, players, dbAutoplay,
                 srvTrack, events, handlers, searches, timers, cmd, nextTrack,
                 advances, YTDLP_ENABLED, default_volume>>

\* time.time() moves on.
Tick ==
  /\ now + TickLen <= MaxTime
  /\ now' = now + TickLen
  /\ lastRes' = NoRes
  /\ UNCHANGED <<YTDLP_CACHE, resolving, lastPut>>
  /\ Resolves

\* The search the pipeline issues once yt_dlp_extract has returned direct
\* (bot.py 383-398).
AfterExtract(kind, direct) ==
  IF direct # NoUrl THEN "direct"
  ELSE IF kind = "youtube" THEN "plain" ELSE "catalog-a"

\* The first search of a query that does not go through yt_dlp_extract
\* (bot.py 373-379, 388-389).
FirstSearch(kind) == IF kind = "scsearch" THEN "catalog-b" ELSE "plain"

\* play, from the sanitizing of the query to its first await inside the
\* resolution (bot.py 362-398) and yt_dlp_extract up to its await (27-56).
\* cookies: os.path.exists(config.YTDLP_COOKIES_PATH).
PlayResolve(raw, cookies) ==
  LET q == Sanitize(raw)
      kind == Kind(q)
      arg == IF kind = "text" THEN <<YtSearch1>> \o q ELSE q
      direct == CacheGet(YTDLP_CACHE, arg, now)
  IN  /\ resolving.stage = "idle"
      /\ UNCHANGED <<YTDLP_CACHE, now, lastPut>>
      /\ IF kind \in {"spotify", "scsearch", "url"}
         THEN /\ resolving' =
                   [Idle EXCEPT !.stage = FirstSearch(kind), !.kind = kind,
                                !.query = IF kind = "scsearch"
                                            THEN Strip(Tail(q)) ELSE q,
                                !.calls = <<FirstSearch(kind)>>]
              /\ lastRes' = NoRes
         ELSE IF ~YTDLP_ENABLED
         THEN /\ resolving' =
                   [Idle EXCEPT !.stage = AfterExtract(kind, NoUrl),
                                !.kind = kind, !.query = q, !.arg = arg,
                                !.calls = <<AfterExtract(kind, NoUrl)>>]
              /\ lastRes' = NoRes
         ELSE IF direct # NoUrl \/ ~cookies
         THEN /\ resolving' =
                   [Idle EXCEPT !.stage = AfterExtract(kind, direct),
                                !.kind = kind, !.query = q, !.arg = arg,
                                !.calls = <<AfterExtract(kind, direct)>>]
              /\ lastRes' = [NoRes EXCEPT !.op = "get", !.query = arg,
                                          !.at = now, !.url = direct,
                                          !.kept = (YTDLP_CACHE' = YTDLP_CACHE)]
         ELSE /\ resolving' =
                   [Idle EXCEPT !.stage = "extract", !.kind = kind,
                                !.query = q, !.arg = arg, !.at = now,
                                !.calls = <<"extractor">>]
              /\ lastRes' = [NoRes EXCEPT !.op = "get", !.query = arg,
                                          !.at = now, !.url = direct,
                                          !.kept = (YTDLP_CACHE' = YTDLP_CACHE)]
      /\ Resolves

\* yt_dlp_extract after its await (bot.py 53-69): the extraction failed or
\* gave no url (url = NoUrl), or gave a url that is cached and returned.
ExtractDone(url) ==
  /\ resolving.stage = "extract"
  /\ resolving' =
       [resolving EXCEPT !.stage = AfterExtract(resolving.kind, url),
                         !.calls = Append(@, AfterExtract(resolving.kind, url)),
                         !.outs = Append(@, IF url = NoUrl THEN "failed"
                                            ELSE "url")]
  /\ IF url = NoUrl
     THEN /\ lastRes' = [NoRes EXCEPT !.op = "failed", !.query = resolving.arg,
                                      !.at = resolving.at]
          /\ UNCHANGED <<YTDLP_CACHE, lastPut>>
     ELSE /\ YTDLP_CACHE' =
               CachePut(YTDLP_CACHE, resolving.arg, url, resolving.at)
          /\ lastPut' = [query |-> resolving.arg, url |-> url,
                         expiry |-> resolving.at + YTDLP_CACHE_TTL]
          /\ lastRes' = [NoRes EXCEPT !.op = "put", !.query = resolving.arg,
                                      !.at = resolving.at, !.url = url,
                                      !.kept = FALSE]
  /\ UNCHANGED now
  /\ Resolves

\* except wavelink.LavalinkException around the catalog-a search
\* (bot.py 397-401).
Absorbs(out) == out = "LavalinkException"

\* A fallback that does not look at what the catalog-a search returned.
FallsBackAlways(stage, out) == stage = "catalog-a"

\* A pipeline that stops after the catalog-a search.
FallsBackNever(stage, out) == FALSE

\* if not tracks: the catalog-b search (bot.py 404-406), reached from the
\* catalog-a search when that returned nothing or its error was caught.
FallsBack(stage, out) == stage = "catalog-a" /\ (out = "empty" \/ Absorbs(out))

\* A Playable.search of the pipeline returns or raises (bot.py 373-409,
\* 458-465); the command then goes on to the session or replies.
SearchDone(out) ==
  /\ resolving.stage \in {"direct", "plain", "catalog-a", "catalog-b"}
  /\ Resolves
  /\ IF FallsBack(resolving.stage, out)
     THEN /\ resolving' = [resolving EXCEPT !.stage = "catalog-b",
                                            !.calls = Append(@, "catalog-b"),
                                            !.outs = Append(@, out)]
          /\ lastRes' = NoRes
     ELSE /\ resolving' = Idle
          /\ lastRes' =
               [NoRes EXCEPT !.op = "done", !.query = resolving.query,
                             !.from = resolving.stage,
                             !.calls = resolving.calls,
                             !.outs = Append(resolving.outs, out),
                             !.kept = (players' = players
                                       /\ srvTrack' = srvTrack),
                             !.reply = CASE out = "tracks" -> "tracks"
                                         [] out = "empty" -> "No tracks found"
                                         [] OTHER -> ErrorReply(out)]
  /\ UNCHANGED <<YTDLP_CACHE, now, lastPut>>

\* ---------------------------------------------------------- specification
\* The bot has just started: no session, nothing in flight.
Started ==
  /\ voice_client = NoPlayer
  /\ nplayers = 0
  /\ players = [p \in Players |-> NoObject]
  /\ dbAutoplay = FALSE
  /\ default_volume = NoVolume
  /\ srvTrack = NoTrack
  /\ events = <<>>
  /\ handlers = <<>>
  /\ searches = {}
  /\ timers = <<>>
  /\ cmd = [s \in Slots |-> NoCommand]
  /\ nextTrack = 1
  /\ advances = [t \in Tracks |-> 0]
  /\ lastFire = NoFire
  /\ lastEnd = NoEnd
  /\ lastCmd = NoCmd
  /\ NotResolving

Init ==
  /\ members = [c \in Channels |-> 0]
  /\ YTDLP_ENABLED \in BOOLEAN
  /\ Started

Next ==
  \/ \E c \in Channels \cup {NoChannel} : Join(c)
  \/ VoiceConnected
  \/ Leave
  \/ Toggle247
  \/ ToggleAutoplay
  \/ \E c \in Channels : MemberJoin(c)
  \/ \E c \in Channels : MemberLeave(c)
  \/ TimerFire
  \/ \E s \in Slots, c \in Channels : PlayStart(s, c)
  \/ \E s \in Slots : PlayConnected(s)
  \/ \E s \in Slots : PlayConnectFailed(s)
  \/ \E s \in Slots : PlayQueued(s)
  \/ \E s \in Slots : PlayNotFound(s)
  \/ \E s \in Slots : PlayFinish(s)
  \/ Skip
  \/ TrackFinish
  \/ WsReceive
  \/ TrackEndRun
  \/ \E n \in 0..MaxResults : AutoplayResult(n)
  \/ Stop
  \/ \E arg \in LoopArgs : Loop(arg)
  \/ ShowQueue
  \/ \E position \in -1..(MaxQueue + 1) : Remove(position)
  \/ Tick
  \/ \E raw \in RawQueries, cookies \in BOOLEAN : PlayResolve(raw, cookies)
  \/ \E url \in Urls \cup {NoUrl} : ExtractDone(url)
  \/ \E out \in SearchOutcomes : SearchDone(out)
  \/ Pause
  \/ Resume
  \/ \E position \in -1..MaxPosition : Seek(position)
  \/ \E s \in Slots : PlayRejected(s)
  \/ TrackEndRejected

Spec == Init /\ [][Next]_vars

\* Sessions: every command and event that creates or destroys a session,
\* with the listeners in voice channel "A"; the resolver finds nothing.
NextSessions ==
  \/ Join("A")
  \/ VoiceConnected
  \/ Leave
  \/ MemberJoin("A")
  \/ MemberLeave("A")
  \/ TimerFire
  \/ \E s \in Slots : PlayStart(s, "A")
  \/ \E s \in Slots : PlayConnected(s)
  \/ \E s \in Slots : PlayConnectFailed(s)
  \/ \E s \in Slots : PlayNotFound(s)

SpecSessions == Init /\ [][NextSessions]_vars

\* Sessions, occupancy, 24/7 mode and timers.
NextLifecycle ==
  \/ NextSessions
  \/ Toggle247

SpecLifecycle == Init /\ [][NextLifecycle]_vars

\* Playback: one listener stays in voice channel "A".
InitPlayback ==
  /\ members = [c \in Channels |-> IF c = "A" THEN 1 ELSE 0]
  /\ YTDLP_ENABLED = FALSE
  /\ Started

NextPlayback ==
  \/ VoiceConnected
  \/ Toggle247
  \/ ToggleAutoplay
  \/ \E s \in Slots : PlayStart(s, "A")
  \/ \E s \in Slots : PlayConnected(s)
  \/ \E s \in Slots : PlayQueued(s)
  \/ \E s \in Slots : PlayNotFound(s)
  \/ \E s \in Slots : PlayFinish(s)
  \/ Skip
  \/ TrackFinish
  \/ WsReceive
  \/ TrackEndRun
  \/ \E n \in 0..MaxResults : AutoplayResult(n)

SpecPlayback == InitPlayback /\ [][NextPlayback]_vars

\* Player record pl after the tracks 1..n were put on its queue in turn.
RECURSIVE Puts(_, _)
Puts(pl, n) == IF n = 0 THEN pl ELSE Put(Puts(pl, n - 1), n)

\* A connected session after n play commands, the first track playing when
\* started is TRUE, with a listener in voice channel "A".
QueueSession(n, started) ==
  LET pl == Puts([NewPlayer("A") EXCEPT !.connected = TRUE,
                                        !.autoplay_enabled = "off"], n)
  IN IF started /\ n > 0
       THEN [AfterGet(pl) EXCEPT !.current = 1, !.history = <<1>>]
       ELSE pl

InitQueue ==
  /\ members = [c \in Channels |-> IF c = "A" THEN 1 ELSE 0]
  /\ voice_client = 1
  /\ nplayers = 1
  /\ \E n \in 0..MaxQueue, started \in BOOLEAN :
       /\ players = [p \in Players |->
                       IF p = 1 THEN QueueSession(n, started) ELSE NoObject]
       /\ srvTrack = IF started /\ n > 0 THEN 1 ELSE NoTrack
       /\ nextTrack = n + 1
  /\ dbAutoplay = FALSE
  /\ default_volume = NoVolume
  /\ events = <<>>
  /\ handlers = <<>>
  /\ searches = {}
  /\ timers = <<>>
  /\ cmd = [s \in Slots |-> NoCommand]
  /\ advances = [t \in Tracks |-> 0]
  /\ lastFire = NoFire
  /\ lastEnd = NoEnd
  /\ lastCmd = NoCmd
  /\ YTDLP_ENABLED = FALSE
  /\ NotResolving

\* The queue commands on a session with up to MaxQueue tracks queued.
NextQueue ==
  \/ ShowQueue
  \/ \E position \in -1..(MaxQueue + 1) : Remove(position)

SpecQueue == InitQueue /\ [][NextQueue]_vars

\* Loop modes: one play command at a time, with skip and the loop command;
\* autoplay stays off.
NextModes ==
  \/ VoiceConnected
  \/ PlayStart(1, "A")
  \/ PlayConnected(1)
  \/ PlayQueued(1)
  \/ PlayNotFound(1)
  \/ PlayFinish(1)
  \/ Skip
  \/ \E arg \in LoopArgs : Loop(arg)
  \/ TrackFinish
  \/ WsReceive
  \/ TrackEndRun

SpecModes == InitPlayback /\ [][NextModes]_vars

\* Stop: one play command at a time, with stop, autoplay and loop mode
\* Track switched on and off.
NextStop ==
  \/ VoiceConnected
  \/ ToggleAutoplay
  \/ PlayStart(1, "A")
  \/ PlayConnected(1)
  \/ PlayQueued(1)
  \/ PlayNotFound(1)
  \/ PlayFinish(1)
  \/ Stop
  \/ \E arg \in {"track", "off"} : Loop(arg)
  \/ TrackFinish
  \/ WsReceive
  \/ TrackEndRun
  \/ \E n \in 0..MaxResults : AutoplayResult(n)

SpecStop == InitPlayback /\ [][NextStop]_vars

\* Resolution: play commands resolving their query one at a time, with the
\* extractor switched on or off and the clock moving.
NextResolve ==
  \/ Tick
  \/ \E raw \in RawQueries, cookies \in BOOLEAN : PlayResolve(raw, cookies)
  \/ \E url \in Urls \cup {NoUrl} : ExtractDone(url)
  \/ \E out \in SearchOutcomes : SearchDone(out)

SpecResolve == Init /\ [][NextResolve]_vars

\* Controls: one play command at a time with pause, resume, seek, skip and
\* stop.
NextControls ==
  \/ VoiceConnected
  \/ PlayStart(1, "A")
  \/ PlayConnected(1)
  \/ PlayQueued(1)
  \/ PlayFinish(1)
  \/ Pause
  \/ Resume
  \/ \E position \in -1..MaxPosition : Seek(position)
  \/ Skip
  \/ Stop
  \/ TrackFinish
  \/ WsReceive
  \/ TrackEndRun

SpecControls == InitPlayback /\ [][NextControls]_vars

\* Registry: join and leave between two occupied channels while one play
\* command at a time fills and plays the queue.
InitRegistry ==
  /\ members = [c \in Channels |-> 1]
  /\ YTDLP_ENABLED = FALSE
  /\ Started

NextRegistry ==
  \/ \E c \in Channels \cup {NoChannel} : Join(c)
  \/ VoiceConnected
  \/ Leave
  \/ PlayStart(1, "A")
  \/ PlayConnected(1)
  \/ PlayQueued(1)
  \/ PlayFinish(1)
  \/ ToggleAutoplay
  \/ WsReceive
  \/ TrackEndRun

SpecRegistry == InitRegistry /\ [][NextRegistry]_vars

\* Transport: one play command at a time and track ends, where the server
\* may reject any play call.
NextTransport ==
  \/ VoiceConnected
  \/ PlayStart(1, "A")
  \/ PlayConnected(1)
  \/ PlayQueued(1)
  \/ PlayFinish(1)
  \/ PlayRejected(1)
  \/ Skip
  \/ TrackFinish
  \/ WsReceive
  \/ TrackEndRun
  \/ TrackEndRejected

SpecTransport == InitPlayback /\ [][NextTransport]_vars

\* The play command against a session that may be playing, together with the
\* resolution pipeline it awaits (bot.py 341-465); the extractor is enabled.
ExhaustQueries == { <<"a">>, <<SpotifyHead, "a">>, <<YouTubeHead, "a">> }

InitExhaust ==
  /\ members = [c \in Channels |-> IF c = "A" THEN 1 ELSE 0]
  /\ YTDLP_ENABLED = TRUE
  /\ Started

NextExhaust ==
  \/ VoiceConnected
  \/ PlayStart(1, "A")
  \/ PlayConnected(1)
  \/ PlayQueued(1)
  \/ PlayNotFound(1)
  \/ PlayFinish(1)
  \/ TrackFinish
  \/ WsReceive
  \/ TrackEndRun
  \/ \E raw \in ExhaustQueries, cookies \in BOOLEAN : PlayResolve(raw, cookies)
  \/ \E url \in Urls \cup {NoUrl} : ExtractDone(url)
  \/ \E out \in SearchOutcomes : SearchDone(out)

SpecExhaust == InitExhaust /\ [][NextExhaust]_vars

\* Every way a track starts: play with one track or a playlist, playlist
\* load, the queue advance and autoplay of the track-end handler.
MaxLoaded == 2

NextNotify ==
  \/ VoiceConnected
  \/ ToggleAutoplay
  \/ PlayStart(1, "A")
  \/ PlayConnected(1)
  \/ PlayQueued(1)
  \/ PlayQueuedPlaylist(1)
  \/ PlayFinish(1)
  \/ PlaylistLoadStart(1, "A")
  \/ PlaylistLoadConnected(1)
  \/ \E n \in 0..MaxLoaded : PlaylistLoaded(1, n)
  \/ PlaylistLoadFinish(1)
  \/ TrackFinish
  \/ WsReceive
  \/ TrackEndRun
  \/ \E n \in 0..MaxResults : AutoplayResult(n)

SpecNotify == InitPlayback /\ [][NextNotify]_vars

\* Playing, stopping and clearing on one session.
NextClear ==
  \/ VoiceConnected
  \/ PlayStart(1, "A")
  \/ PlayConnected(1)
  \/ PlayQueued(1)
  \/ PlayFinish(1)
  \/ Stop
  \/ Clear
  \/ TrackFinish
  \/ WsReceive
  \/ TrackEndRun

SpecClear == InitPlayback /\ [][NextClear]_vars

\* Shuffling the queue of a session between plays and track ends.
NextShuffle ==
  \/ VoiceConnected
  \/ PlayStart(1, "A")
  \/ PlayConnected(1)
  \/ PlayQueued(1)
  \/ PlayQueuedPlaylist(1)
  \/ PlayFinish(1)
  \/ Shuffle
  \/ TrackFinish
  \/ WsReceive
  \/ TrackEndRun

SpecShuffle == InitPlayback /\ [][NextShuffle]_vars

\* The volume commands with every way a session is created; the volumes
\* requested lie below, in and above the accepted range.
Volumes == {-1, 0, 30, 100, 101}

NextVolume ==
  \/ \E c \in {"A", NoChannel} : Join(c)
  \/ Leave
  \/ VoiceConnected
  \/ PlayStart(1, "A")
  \/ PlayConnected(1)
  \/ PlayNotFound(1)
  \/ PlaylistLoadStart(1, "A")
  \/ PlaylistLoadConnected(1)
  \/ PlaylistLoaded(1, 0)
  \/ PlaylistLoadFinish(1)
  \/ \E volume \in Volumes : Volume(volume)
  \/ \E volume \in Volumes, manage_guild \in BOOLEAN :
        SetVolume(volume, manage_guild)

SpecVolume == InitPlayback /\ [][NextVolume]_vars

\* Play commands and the track-end handler of one session alone: loop mode
\* Off, autoplay off, no skip, stop, remove or clear.
NextRace ==
  \/ VoiceConnected
  \/ PlayStart(1, "A")
  \/ PlayConnected(1)
  \/ PlayQueued(1)
  \/ PlayFinish(1)
  \/ TrackFinish
  \/ WsReceive
  \/ TrackEndRun

SpecRace == InitPlayback /\ [][NextRace]_vars

\* The autoplay toggle with every way a session is created.
NextFlags ==
  \/ \E c \in {"A", NoChannel} : Join(c)
  \/ Leave
  \/ VoiceConnected
  \/ PlayStart(1, "A")
  \/ PlayConnected(1)
  \/ PlayNotFound(1)
  \/ PlaylistLoadStart(1, "A")
  \/ PlaylistLoadConnected(1)
  \/ PlaylistLoaded(1, 0)
  \/ PlaylistLoadFinish(1)
  \/ ToggleAutoplay

SpecFlags == InitPlayback /\ [][NextFlags]_vars

\* Members coming to and leaving both voice channels of the guild while the
\* bot is in one of them.
NextOccupancy ==
  \/ \E c \in Channels : Join(c)
  \/ VoiceConnected
  \/ Leave
  \/ \E c \in Channels : MemberJoin(c)
  \/ \E c \in Channels : MemberLeave(c)
  \/ Toggle247
  \/ TimerFire

SpecOccupancy == Init /\ [][NextOccupancy]_vars

\* The clear command on a session that plays, is paused, and has its mode
\* and flags changed; no track ends.
NextFrame ==
  \/ VoiceConnected
  \/ PlayStart(1, "A")
  \/ PlayConnected(1)
  \/ PlayQueued(1)
  \/ PlayFinish(1)
  \/ Pause
  \/ Resume
  \/ \E arg \in LoopArgs : Loop(arg)
  \/ ToggleAutoplay
  \/ Toggle247
  \/ Clear

SpecFrame == InitPlayback /\ [][NextFrame]_vars

\* The steps that need no user: the voice handshake, a play command in
\* flight going on, a track reaching its end, the delivery of an event and
\* the run of a dispatched handler. Each is taken when it stays possible;
\* whether the transport accepts a play call is left open.
FairProgress ==
  /\ WF_vars(VoiceConnected)
  /\ WF_vars(PlayConnected(1))
  /\ WF_vars(PlayQueued(1) \/ PlayNotFound(1))
  /\ WF_vars(PlayFinish(1) \/ PlayRejected(1))
  /\ WF_vars(TrackFinish)
  /\ WF_vars(WsReceive)
  /\ WF_vars(TrackEndRun \/ TrackEndRejected)

NextProgress == NextTransport \/ PlayNotFound(1)

SpecProgress == InitPlayback /\ [][NextProgress]_vars /\ FairProgress

\* The same with a transport that accepts every play call.
NextAccepted ==
  \/ VoiceConnected
  \/ PlayStart(1, "A")
  \/ PlayConnected(1)
  \/ PlayQueued(1)
  \/ PlayNotFound(1)
  \/ PlayFinish(1)
  \/ Skip
  \/ TrackFinish
  \/ WsReceive
  \/ TrackEndRun

FairAccepted ==
  /\ WF_vars(VoiceConnected)
  /\ WF_vars(PlayConnected(1))
  /\ WF_vars(PlayQueued(1) \/ PlayNotFound(1))
  /\ WF_vars(PlayFinish(1))
  /\ WF_vars(TrackFinish)
  /\ WF_vars(WsReceive)
  /\ WF_vars(TrackEndRun)

SpecAccepted == InitPlayback /\ [][NextAccepted]_vars /\ FairAccepted

\* ------------------------------------------------------------------ claims
\* The items of sequence h that are in set S, in the order of h.
RECURSIVE Only(_, _)
Only(h, S) ==
  IF h = <<>> THEN <<>>
  ELSE IF Head(h) \in S THEN <<Head(h)>> \o Only(Tail(h), S)
  ELSE Only(Tail(h), S)

Range(q) == {q[i] : i \in 1..Len(q)}

\* The items of Player p's history that came from its queue, in the order
\* they were started.
QueueStarts(p) == Only(players[p].history, Range(players[p].enqueued))

\* C1: session-creating calls (join, play) that overlap create exactly one
\* Session: the guild never holds two Sessions, the one it holds is the
\* registered voice client, and every play command in flight whose player
\* still holds a voice connection works on that one Session.
C1_OneSession ==
  /\ Cardinality(Sessions) <= 1
  /\ Sessions = IF voice_client = NoPlayer THEN {} ELSE {voice_client}
  /\ \A s \in Slots :
       cmd[s].pc # "idle" /\ players[cmd[s].player].voice
         => cmd[s].player = voice_client

\* Two play commands overlap: the first created the Session and awaits the
\* voice handshake, the second found it and resolves its query.
C1_Witness ==
  /\ cmd[1].pc = "connecting"
  /\ cmd[2].pc = "resolving"
  /\ cmd[1].player = cmd[2].player
  /\ Sessions = {cmd[1].player}
  /\ ~players[cmd[1].player].connected

\* C3: a timer armed when the channel emptied, after which a non-bot
\* occupant was present again in its session's channel before it fired, does
\* not disconnect, whatever the occupancy is when it fires.
C3_ReoccupiedNeverDisconnects ==
  lastFire.disconnected => lastFire.superseded # "reoccupied"

\* The timers pending for Player p.
TimersOf(p) == {i \in 1..Len(timers) : timers[i].vc = p}

\* C4: at most one deferred-disconnect timer is outstanding per Session.
C4_OneTimerPerSession == \A p \in Players : Cardinality(TimersOf(p)) <= 1

\* C5: an idle-timeout disconnect takes a Session down only if, when the
\* timer fires, that Session's channel has no non-bot occupant and its 24/7
\* mode is disabled.
C5_DisconnectOnlyWhenIdle ==
  lastFire.disconnected /\ lastFire.live # NoPlayer
    => ~lastFire.liveOccupied /\ ~lastFire.live247

\* C6: a timer scheduled for a Session that has since been disconnected
\* (leave, or an earlier timer) performs no disconnect.
C6_NoFireAfterLeave == lastFire.disconnected => ~lastFire.dead

\* C7: a timer that was pending when 24/7 was enabled never disconnects,
\* also when 24/7 has been disabled again before it fires.
C7_Enable247Cancels ==
  lastFire.disconnected => lastFire.superseded # "enabled247"

\* C11: in loop mode Track a natural track end replays the track that
\* ended, also when no item is queued, and leaves the queue as it is.
C11_LoopTrackReplays ==
  lastEnd.mode = "loop" /\ lastEnd.reason = "finished"
    => lastEnd.started = lastEnd.track /\ lastEnd.kept

\* C12: in loop mode Queue every natural track end starts an item, so that
\* the N items come round again: when the queue has run empty the handler
\* starts over instead of stopping.
C12_LoopQueueGoesRound ==
  lastEnd.mode = "loop_all" /\ lastEnd.reason = "finished"
    => lastEnd.started # NoTrack

\* C20: once stop and the track end it produces have been handled, nothing
\* was started on behalf of that track end while the queue was empty: the
\* handler and the autoplay search it may start leave the session without a
\* track, whatever the autoplay and loop flags are.
C20_StopLeavesConnected ==
  lastEnd.by = "stop" /\ lastEnd.next = NoTrack
    => lastEnd.started = NoTrack /\ ~lastEnd.searching

\* C15: a read of the resolution cache for the query of the latest write
\* returns the written url at every time before the written expiry, and
\* returns nothing and leaves the cache as it is at every time from the
\* expiry on.
C15_CacheExpiry ==
  lastRes.op = "get" /\ lastPut.query = lastRes.query
    => /\ lastRes.at < lastPut.expiry => lastRes.url = lastPut.url
       /\ lastRes.at >= lastPut.expiry
            => lastRes.url = NoUrl /\ lastRes.kept

\* A read at the very time of expiry of the entry written for the same query.
C15_Witness ==
  /\ lastRes.op = "get"
  /\ lastPut.query = lastRes.query
  /\ lastPut.url \in Urls
  /\ lastRes.at = lastPut.expiry
  /\ Cached(YTDLP_CACHE, Normalize(lastRes.query)).url = lastPut.url

\* C16: for a free-text query whose extraction gave no url, tracks returned
\* by the catalog-a search end the resolution with those tracks and without
\* a catalog-b search; and a catalog-b search that is not the first call of
\* the resolution directly follows a catalog-a search that gave no tracks.
YieldedNothing(out) == out \in {"empty", "LavalinkException"}

C16_FallbackOrder ==
  lastRes.op = "done"
    => /\ \A i \in 1..Len(lastRes.calls) :
            lastRes.calls[i] = "catalog-a" /\ lastRes.outs[i] = "tracks"
              => /\ i = Len(lastRes.calls)
                 /\ lastRes.reply = "tracks"
                 /\ lastRes.from = "catalog-a"
       /\ \A i \in 2..Len(lastRes.calls) :
            lastRes.calls[i] = "catalog-b"
              => /\ lastRes.calls[i - 1] = "catalog-a"
                 /\ YieldedNothing(lastRes.outs[i - 1])

\* The extraction ran and failed, and the catalog-a search returned tracks.
C16_Witness ==
  /\ lastRes.op = "done"
  /\ lastRes.calls = <<"extractor", "catalog-a">>
  /\ lastRes.outs = <<"failed", "tracks">>
  /\ lastRes.reply = "tracks"

\* C17: a catalog-a search that fails with a backend error, a load failure
\* included, is followed by the catalog-b search, whose result is the
\* result of the resolution.
BackendErrors == {"LavalinkException", "LavalinkLoadException"}

C17_ErrorsFallBack ==
  lastRes.op = "done"
    => \A i \in 1..Len(lastRes.calls) :
         lastRes.calls[i] = "catalog-a" /\ lastRes.outs[i] \in BackendErrors
           => /\ i < Len(lastRes.calls)
              /\ lastRes.calls[i + 1] = "catalog-b"
              /\ lastRes.from = "catalog-b"

\* C18: an autoplay search that returns at least two results starts the
\* second of them; one that returns fewer starts nothing and, unless 24/7
\* is enabled, leaves an idle-disconnect timer pending for the session.
C18_SelectsSecond ==
  lastEnd.searched
    => /\ lastEnd.results >= 2 => lastEnd.started = lastEnd.second
       /\ lastEnd.results < 2 => lastEnd.started = NoTrack

C18_AutoplayPicksSecond ==
  /\ C18_SelectsSecond
  /\ lastEnd.searched /\ lastEnd.results < 2 /\ ~lastEnd.is247
       => lastEnd.armed

\* C19: a track-end handler starts the autoplay search only when the queue
\* has no next item and the autoplay flag of the session is on.
C19_AutoplayOnlyWhenExhausted ==
  /\ lastEnd.searching => lastEnd.next = NoTrack /\ lastEnd.autoplay
  /\ \A a \in searches : players[a.player].autoplay_enabled # "unset"

\* A handler that started the search.
C19_Witness ==
  /\ lastEnd.searching
  /\ lastEnd.autoplay
  /\ lastEnd.started = NoTrack
  /\ searches # {}

\* C13: in loop mode Off the queue snapshot lists the not-yet-played items
\* in insertion order: the queue holds enqueued items that were not started,
\* in the order they were enqueued, and the queue command lists its first
\* QueuePage items in that order and reports the number of all of them.
C13_SnapshotInOrder ==
  /\ \A p \in Players :
       /\ Only(players[p].enqueued, Range(players[p].queue))
            = players[p].queue
       /\ Range(players[p].queue) \cap Range(players[p].history) = {}
  /\ lastCmd.op = "queue" /\ lastCmd.reply = "listed"
       => /\ lastCmd.count = Len(players[voice_client].queue)
          /\ lastCmd.shown
               = FirstItems(players[voice_client].queue, QueuePage)
          /\ \A i, j \in 1..Len(lastCmd.shown) :
               i < j => lastCmd.shown[i] < lastCmd.shown[j]

\* The queue command has listed a queue longer than its page, after an
\* item was removed from the middle.
C13_Witness ==
  /\ lastCmd.op = "queue"
  /\ lastCmd.count > QueuePage
  /\ Len(lastCmd.shown) = QueuePage
  /\ players[voice_client].queue # players[voice_client].enqueued

\* C14: remove with a position outside [1, count] fails and leaves the
\* queue as it is: on a non-empty queue the reply names the bounds 1 and
\* count, on an empty queue every position is refused.
C14_RemoveOutOfRange ==
  lastCmd.op = "remove" /\ (lastCmd.pos < 1 \/ lastCmd.pos > lastCmd.count)
    => /\ lastCmd.kept
       /\ lastCmd.reply = IF lastCmd.count = 0 THEN "empty" ELSE "range"
       /\ lastCmd.count > 0 => lastCmd.lo = 1 /\ lastCmd.hi = lastCmd.count

\* Position count + 1 was refused on a queue of several items, and kept it.
C14_Witness ==
  /\ lastCmd.op = "remove"
  /\ lastCmd.reply = "range"
  /\ lastCmd.count > 1
  /\ lastCmd.pos = lastCmd.count + 1
  /\ Len(players[voice_client].queue) = lastCmd.count

\* C21: pause on a loaded track that is not paused pauses it, and resume
\* on a paused loaded track resumes it; pause on a paused track, resume on
\* one that is not paused, and either with nothing loaded reply with an
\* error and change nothing.
ControlErrors ==
  {"Nothing is playing!", "The music is not paused!",
   "I'm not in a voice channel!"}

C21_PauseResume ==
  /\ lastCmd.op = "pause"
       => IF lastCmd.wasLoaded /\ ~lastCmd.wasPaused
            THEN lastCmd.reply = "Paused!" /\ Paused
            ELSE lastCmd.reply \in ControlErrors /\ lastCmd.kept
  /\ lastCmd.op = "resume"
       => IF lastCmd.wasLoaded /\ lastCmd.wasPaused
            THEN lastCmd.reply = "Resumed!" /\ ~Paused
            ELSE lastCmd.reply \in ControlErrors /\ lastCmd.kept

\* C22: seek sends a position to the server only when a track is loaded
\* and the position lies within the track; a negative position, one beyond
\* the length of the track, and any position with nothing loaded are
\* refused with an error and nothing is sent.
C22_SeekInRange ==
  lastCmd.op = "seek"
    => /\ lastCmd.sought # NoSeek
            => /\ lastCmd.wasLoaded
               /\ lastCmd.sought >= 0
               /\ lastCmd.sought <= lastCmd.length
       /\ ~lastCmd.wasLoaded \/ lastCmd.pos < 0
             \/ lastCmd.pos * 1000 > lastCmd.length
            => /\ lastCmd.sought = NoSeek
               /\ lastCmd.reply \in {"Nothing is playing!",
                                      "Position must be between"}
       /\ lastCmd.wasLoaded /\ lastCmd.pos >= 0
             /\ lastCmd.pos * 1000 <= lastCmd.length
            => lastCmd.sought = lastCmd.pos * 1000
       /\ lastCmd.kept

\* A seek on a paused track to the first full second past its end.
C22_Witness ==
  /\ lastCmd.op = "seek"
  /\ lastCmd.wasLoaded
  /\ lastCmd.wasPaused
  /\ lastCmd.pos * 1000 > lastCmd.length
  /\ (lastCmd.pos - 1) * 1000 <= lastCmd.length
  /\ lastCmd.sought = NoSeek

\* C23: the play command appends its item to the queue of the connected
\* session; when it then finds no track loaded and an item to take, it
\* takes the head of the queue and the session is playing it, not paused;
\* when it finds a track loaded, playing or paused, it leaves the current
\* track and the queue as they are.
Enqueues(s) == cmd[s].pc = "resolving" /\ cmd'[s].pc = "queued"

MaybeStarts(s) ==
  /\ cmd[s].pc = "queued"
  /\ cmd'[s].pc = "idle"
  /\ voice_client = cmd[s].player
  /\ players[cmd[s].player].connected

C23_EnqueueKeepsCurrent ==
  [][\A s \in Slots :
       LET was == players[cmd[s].player]
           is == players'[cmd[s].player]
       IN  /\ Enqueues(s)
                => /\ is.queue = Append(was.queue, nextTrack)
                   /\ is.current = was.current
           /\ MaybeStarts(s) /\ was.current = NoTrack /\ was.queue # <<>>
                => /\ is.current = Head(was.queue)
                   /\ is.queue = Tail(was.queue)
                   /\ srvTrack' = Head(was.queue)
           /\ MaybeStarts(s) /\ was.current # NoTrack
                => is.current = was.current /\ is.queue = was.queue]_vars

C23_EnqueueAndMaybeStart ==
  [][\A s \in Slots :
       /\ Enqueues(s)
            => players'[cmd[s].player].queue
                 = Append(players[cmd[s].player].queue, nextTrack)
       /\ MaybeStarts(s) /\ players[cmd[s].player].current = NoTrack
                         /\ players[cmd[s].player].queue # <<>>
            => /\ players'[cmd[s].player].current
                    = Head(players[cmd[s].player].queue)
               /\ ~players'[cmd[s].player].paused
       /\ MaybeStarts(s) /\ players[cmd[s].player].current # NoTrack
            => /\ players'[cmd[s].player].current
                    = players[cmd[s].player].current
               /\ players'[cmd[s].player].queue
                    = players[cmd[s].player].queue]_vars

\* C24: leave with a voice client disconnects it, after which the guild
\* has no voice client and no Player holds a voice connection; leave
\* without one replies with an error and changes nothing.
C24_LeaveRemovesSession ==
  lastCmd.op = "leave"
    => IF lastCmd.session # NoPlayer
         THEN /\ lastCmd.reply = "Disconnected!"
              /\ voice_client = NoPlayer
              /\ Sessions = {}
              /\ ~players[lastCmd.session].connected
         ELSE /\ lastCmd.reply = "I'm not in a voice channel!"
              /\ lastCmd.kept
              /\ voice_client = NoPlayer

\* A leave from a session with a track loaded and another one queued.
C24_Witness ==
  /\ lastCmd.op = "leave"
  /\ lastCmd.session # NoPlayer
  /\ players[lastCmd.session].current # NoTrack
  /\ players[lastCmd.session].queue # <<>>

\* C25: join by an author in no voice channel replies with an error and
\* creates nothing; join while the guild has a voice client in another
\* channel moves that Player, with its queue and flags, and creates no
\* other; join into the channel of the voice client replies that the bot
\* is already there and changes nothing.
C25_JoinMoves ==
  lastCmd.op = "join"
    => /\ lastCmd.author = NoChannel
            => /\ lastCmd.reply = "You need to be in a voice channel!"
               /\ voice_client = lastCmd.session
               /\ lastCmd.kept
       /\ lastCmd.author # NoChannel /\ lastCmd.session # NoPlayer
            => /\ voice_client = lastCmd.session
               /\ Sessions = {lastCmd.session}
               /\ players[voice_client].channel = lastCmd.author
               /\ lastCmd.kept
               /\ lastCmd.reply = IF lastCmd.channel = lastCmd.author
                                    THEN "I'm already in your channel!"
                                    ELSE "Joined"

\* A move of a session that has a track queued and autoplay switched on.
C25_Witness ==
  /\ lastCmd.op = "join"
  /\ lastCmd.session # NoPlayer
  /\ lastCmd.author # NoChannel
  /\ lastCmd.channel # lastCmd.author
  /\ players[lastCmd.session].queue # <<>>
  /\ players[lastCmd.session].autoplay_enabled = "on"

YieldsNothing(call, out) ==
  \/ out \in {"failed", "empty"}
  \/ call = "catalog-a" /\ Absorbs(out)

Exhausted(r) ==
  /\ r.op = "done"
  /\ \A i \in DOMAIN r.outs : YieldsNothing(r.calls[i], r.outs[i])

C27_ExhaustedFindsNothing ==
  /\ Exhausted(lastRes) => lastRes.reply = "No tracks found" /\ lastRes.kept
  /\ lastRes.op = "done" /\ lastRes.reply = "No tracks found"
        /\ (\E i \in DOMAIN lastRes.calls : lastRes.calls[i] = "catalog-a")
       => lastRes.from = "catalog-b"
  /\ lastCmd.op = "play" /\ lastCmd.reply = "No tracks found"
       => lastCmd.kept

\* The extractor failed and both catalog searches returned nothing while a
\* track is loaded on the player.
C27_Witness ==
  /\ Exhausted(lastRes)
  /\ lastRes.calls = <<"extractor", "catalog-a", "catalog-b">>
  /\ lastRes.outs = <<"failed", "empty", "empty">>
  /\ voice_client # NoPlayer
  /\ players[voice_client].loaded # NoTrack

\* C28: while the query being resolved matches the Spotify link pattern, no
\* step reads the extraction cache, writes it or runs the extractor, the
\* cache stays as it was, and the only call made is the plain search of the
\* link itself.
MatchesSpotify(r) ==
  /\ r.stage # "idle"
  /\ r.query # <<>>
  /\ r.query[1] = SpotifyHead

C28_SpotifyBypassesCache ==
  [][MatchesSpotify(resolving) \/ MatchesSpotify(resolving')
       => /\ YTDLP_CACHE' = YTDLP_CACHE
          /\ lastPut' = lastPut
          /\ lastRes'.op \notin {"get", "put", "failed"}
          /\ resolving'.stage \in {"idle", "plain"}
          /\ resolving'.calls \in {<<>>, <<"plain">>}]_vars

\* A Spotify link was resolved with the extractor enabled and an entry in
\* the cache.
C28_Witness ==
  /\ lastRes.op = "done"
  /\ lastRes.query # <<>>
  /\ lastRes.query[1] = SpotifyHead
  /\ lastRes.calls = <<"plain">>
  /\ YTDLP_ENABLED
  /\ YTDLP_CACHE # <<>>

\* C29: every step that starts a track on a Player comes with a now-playing
\* notification for it: the track-end handler sends "Now Playing" or
\* "Autoplay" to the stored text channel, or the command that starts the
\* track has sent "Now Playing".
TrackStarts(p) == Len(players'[p].history) = Len(players[p].history) + 1

HandlerNotifies(p) ==
  /\ lastEnd'.player = p
  /\ lastEnd'.started # NoTrack
  /\ lastEnd'.notice \in {"Now Playing", "Autoplay"}

CommandNotifies(p) ==
  \E s \in Slots : /\ cmd[s].player = p
                   /\ cmd[s].pc \in {"queued", "loaded"}
                   /\ cmd'[s].pc = "idle"
                   /\ cmd[s].notice = "Now Playing"

C29_EveryStartNotifies ==
  [][\A p \in Players :
       TrackStarts(p) => HandlerNotifies(p) \/ CommandNotifies(p)]_vars

\* The starts of the track-end handler alone come with a notification.
C29_HandlerStartsNotify ==
  [][\A p \in Players :
       TrackStarts(p) /\ lastEnd'.started # NoTrack => HandlerNotifies(p)]_vars

\* C30: on every session the current track is null exactly when no item has
\* been taken off the queue since the last stop or clear.
C30_CurrentIffDequeued ==
  \A p \in Sessions :
    players[p].current = NoTrack <=> ~players[p].dequeued

\* The two directions of C30, each on its own.
C30_CurrentOnlyIfDequeued ==
  \A p \in Sessions : players[p].current # NoTrack => players[p].dequeued

C30_DequeuedOnlyIfCurrent ==
  \A p \in Sessions : players[p].dequeued => players[p].current # NoTrack

\* C31: a shuffle that is carried out leaves on the queue the same items,
\* each as often as before, and changes nothing else of the session, the
\* current track and the track on the server included; a shuffle of an empty
\* queue is answered "The queue is empty!" and changes nothing.
Occurrences(q, x) == Cardinality({i \in 1..Len(q) : q[i] = x})

SameItems(q, r) ==
  /\ Len(q) = Len(r)
  /\ \A x \in Tracks : Occurrences(q, x) = Occurrences(r, x)

C31_ShufflePermutes ==
  [][lastCmd'.op = "shuffle"
       => /\ srvTrack' = srvTrack
          /\ \A p \in Players :
                /\ SameItems(players'[p].queue, players[p].queue)
                /\ players'[p] = [players[p] EXCEPT
                                    !.queue = players'[p].queue]
          /\ (voice_client # NoPlayer /\ players[voice_client].queue = <<>>)
               => /\ players' = players
                  /\ lastCmd'.reply = "The queue is empty!"]_vars

\* A shuffle changed the order of the queue while a track was playing.
C31_Witness ==
  /\ lastCmd.op = "shuffle"
  /\ lastCmd.reply = "Queue shuffled!"
  /\ players[lastCmd.session].queue # lastCmd.shown
  /\ players[lastCmd.session].current # NoTrack

\* A shuffle of an empty queue was rejected.
C31_WitnessEmpty ==
  /\ lastCmd.op = "shuffle"
  /\ lastCmd.reply = "The queue is empty!"

\* C32: a query that differs from the query of the latest cache write only
\* in letter case or in blanks at its ends addresses the written entry: a
\* read under it before the expiry returns the written url, as a read by the
\* pipeline and as a read of the cache as it stands.
FirstInk(q) == CHOOSE i \in 1..Len(q) : q[i] # Blank /\ \A j \in 1..(i - 1) : q[j] = Blank

LastInk(q) == CHOOSE i \in 1..Len(q) : q[i] # Blank /\ \A j \in (i + 1)..Len(q) : q[j] = Blank

Core(q) ==
  IF \A i \in 1..Len(q) : q[i] = Blank THEN <<>>
  ELSE SubSeq(q, FirstInk(q), LastInk(q))

SameLetter(c, d) == c = d \/ {c, d} = Letters

Alike(q, r) ==
  /\ Len(Core(q)) = Len(Core(r))
  /\ \A i \in 1..Len(Core(q)) : SameLetter(Core(q)[i], Core(r)[i])

Variants ==
  { <<YtSearch1, "a">>, <<YtSearch1, "A">>, <<Blank, YtSearch1, "A">>,
    <<YtSearch1, "a", Blank, Blank>>, <<Blank, YtSearch1, "a", Blank>>,
    <<YtSearch1, Blank, "a">>, <<YouTubeHead, "A">>,
    <<Blank, YouTubeHead, "a", Blank>> }

C32_KeysNormalized ==
  /\ lastRes.op = "get" /\ Alike(lastRes.query, lastPut.query)
        /\ lastRes.at < lastPut.expiry
       => lastRes.url = lastPut.url
  /\ \A q \in Variants :
       lastPut # NoPut /\ Alike(q, lastPut.query) /\ now < lastPut.expiry
         => CacheGet(YTDLP_CACHE, q, now) = lastPut.url

\* The pipeline read, under a query in another letter case, the url written
\* for the query of the latest write.
C32_Witness ==
  /\ lastRes.op = "get"
  /\ lastRes.query # lastPut.query
  /\ Alike(lastRes.query, lastPut.query)
  /\ lastRes.at < lastPut.expiry
  /\ lastRes.url \in Urls

\* C33: after every step the volume of every session and the stored default
\* lie in 0..100; a volume or setvolume request outside 0..100 gets an
\* error reply and changes neither the players nor the stored default; and
\* the step that completes the creation of a session (join connecting, play
\* or playlist load after connect() returned) leaves the new session at the
\* stored default, 50 when none is stored.
InVolumeRange(v) == v \in 0..100

Creates(p) ==
  \/ lastCmd'.op = "join" /\ nplayers' = nplayers + 1 /\ p = nplayers'
  \/ \E s \in Slots : /\ cmd[s].player = p
                      /\ \/ cmd[s].pc = "connecting"
                            /\ cmd'[s].pc = "resolving"
                         \/ cmd[s].pc = "load-connecting"
                            /\ cmd'[s].pc = "loading"

C33_VolumeInRange ==
  [][/\ \A p \in Players : players'[p].voice
                              => InVolumeRange(players'[p].volume)
     /\ default_volume' # NoVolume => InVolumeRange(default_volume')
     /\ lastCmd'.op \in {"volume", "setvolume"}
           /\ ~InVolumeRange(lastCmd'.pos)
          => /\ players' = players
             /\ default_volume' = default_volume
             /\ lastCmd'.reply \in {"Volume must be between 0 and 100!",
                                    "I'm not in a voice channel!",
                                    "You need Manage Server permission"}
     /\ \A p \in Players :
          Creates(p)
            => players'[p].volume =
                 IF default_volume = NoVolume THEN 50 ELSE default_volume
    ]_vars

\* A session created by play stands at a stored default of 30 after a
\* volume request of 101 was rejected.
C33_Witness ==
  /\ lastCmd.op = "volume"
  /\ lastCmd.pos = 101
  /\ lastCmd.reply = "Volume must be between 0 and 100!"
  /\ default_volume = 30
  /\ players[lastCmd.session].volume = 30
  /\ players[lastCmd.session].text_channel

\* C34: with play commands and the track-end handler interleaved in loop
\* mode Off, the items started so far followed by the items still queued
\* are the items enqueued, so none is lost and none is started twice; and no
\* step takes and starts an item while the server plays the track that the
\* other of the two has started.
C34_NoneLostOrTwice ==
  \A p \in Players : players[p].enqueued = QueueStarts(p) \o players[p].queue

C34_NoStartOverPlaying ==
  [][\A p \in Players : TrackStarts(p) => srvTrack = NoTrack]_vars

C34_NoItemLost == []C34_NoneLostOrTwice /\ C34_NoStartOverPlaying

\* C35: when from some time on no play command is in flight, a session does
\* not stay forever with no current track, no track on the server and items
\* on its queue.
Stalled ==
  /\ voice_client # NoPlayer
  /\ players[voice_client].current = NoTrack
  /\ players[voice_client].queue # <<>>
  /\ srvTrack = NoTrack

NoCommandInFlight == \A s \in Slots : cmd[s].pc = "idle"

FlagCopied(p) ==
  /\ players'[p].autoplay_enabled # "unset"
  /\ (players'[p].autoplay_enabled = "on") = dbAutoplay

FlagToggled(p) ==
  /\ players[p].voice
  /\ players'[p].voice
  /\ ~Creates(p)
  /\ players'[p].autoplay_enabled # players[p].autoplay_enabled

C36_CreatedWithSetting ==
  [][\A p \in Players : Creates(p) => FlagCopied(p)]_vars

C36_ToggleMatchesSetting ==
  [][\A p \in Players :
       FlagToggled(p) => (players'[p].autoplay_enabled = "on") = dbAutoplay'
    ]_vars

C36_FlagFromSetting == C36_CreatedWithSetting /\ C36_ToggleMatchesSetting

\* The flag of a session has the value of the persisted setting whenever no
\* command is in flight.
C36_FlagIsSetting ==
  NoCommandInFlight /\ voice_client # NoPlayer
    => AutoplayEnabled(voice_client) = dbAutoplay

\* C37: a member leaving a voice channel other than the one the session is
\* in starts no deferred disconnect: the pending timers stay as they are.
LeavesOther(c) ==
  /\ members'[c] < members[c]
  /\ voice_client # NoPlayer
  /\ players[voice_client].channel # c

C37_OnlyOwnChannel ==
  [][\A c \in Channels : LeavesOther(c) => timers' = timers]_vars

\* No timer that a departure from another channel started disconnects a
\* session that is still there.
C37_ForeignNeverDisconnects ==
  lastFire.superseded = "foreign" /\ ~lastFire.dead => ~lastFire.disconnected

\* C38: a clear on a session empties its queue and changes nothing else:
\* the current and the loaded track, the paused flag, the loop mode, the
\* autoplay and 24/7 flags and the connection of every Player stay, the
\* track on the server goes on and no track-end event is produced.
OnlyQueueCleared(before, after) ==
  /\ after.queue = <<>>
  /\ after.current = before.current
  /\ after.loaded = before.loaded
  /\ after.paused = before.paused
  /\ after.mode = before.mode
  /\ after.autoplay_enabled = before.autoplay_enabled
  /\ after.twentyfourseven = before.twentyfourseven
  /\ after.connected = before.connected
  /\ after.voice = before.voice
  /\ after.history = before.history
  /\ after.volume = before.volume

C38_ClearOnlyQueue ==
  [][lastCmd'.op = "clear" /\ voice_client # NoPlayer
       => /\ OnlyQueueCleared(players[voice_client], players'[voice_client])
          /\ \A p \in Players \ {voice_client} : players'[p] = players[p]
          /\ voice_client' = voice_client
          /\ srvTrack' = srvTrack
          /\ events' = events
          /\ handlers' = handlers]_vars

\* Two items were cleared from the queue of a paused session in loop-queue
\* mode whose track is still loaded on the server.
C38_Witness ==
  /\ lastCmd.op = "clear"
  /\ lastCmd.count >= 1
  /\ srvTrack # NoTrack
  /\ players[lastCmd.session].current = srvTrack
  /\ players[lastCmd.session].paused
  /\ players[lastCmd.session].mode = "loop_all"
  /\ players[lastCmd.session].queue = <<>>

\* C39: a loop command without an argument moves the mode one step along
\* normal, loop, loop_all, normal, so that three of them in a row return to
\* the mode they started from; one with a word that names no mode replies
\* "Invalid mode!" and leaves the mode; and no loop command changes
\* anything of a Player but its mode, nor the track on the server.
Cycle(mode) ==
  CASE mode = "normal" -> "loop"
    [] mode = "loop" -> "loop_all"
    [] mode = "loop_all" -> "normal"

ModeNames == {"", "off", "none", "disable", "track", "song", "one", "queue", "all"}

C39_LoopCycles ==
  [][lastCmd'.op = "loop"
       => LET p == lastCmd'.session
              mode == players[p].mode
          IN /\ lastCmd'.arg = "" => players'[p].mode = Cycle(mode)
             /\ lastCmd'.arg = ""
                  => LoopMode(LoopMode(players'[p].mode, ""), "") = mode
             /\ lastCmd'.arg \notin ModeNames
                  => /\ players'[p].mode = mode
                     /\ lastCmd'.reply = "Invalid mode!"
             /\ players' = [players EXCEPT ![p].mode = players'[p].mode]
             /\ srvTrack' = srvTrack
             /\ events' = events]_vars

\* A loop command without an argument took a playing session with a queued
\* item from loop_all back to normal.
C39_Witness ==
  /\ lastCmd.op = "loop"
  /\ lastCmd.arg = ""
  /\ lastCmd.reply = "Looping: Off"
  /\ players[lastCmd.session].mode = "normal"
  /\ players[lastCmd.session].current # NoTrack
  /\ players[lastCmd.session].queue # <<>>

\* A loop command with a word that names no mode was answered.
C39_WitnessInvalid ==
  /\ lastCmd.op = "loop"
  /\ lastCmd.arg = "shuffle"
  /\ lastCmd.reply = "Invalid mode!"
  /\ players[lastCmd.session].mode = "loop"

\* C2: a track end and a concurrent skip never both advance the queue: on
\* behalf of one ended track at most one queued item is taken and started.
C2_OneAdvancePerEnd == \A t \in Tracks : advances[t] <= 1

\* The handler of a track that skip ended has just started the next item:
\* the one advance made for that track.
C2_Witness ==
  /\ lastEnd.reason = "stopped"
  /\ lastEnd.started # NoTrack
  /\ \E t \in Tracks : advances[t] = 1 /\ t < lastEnd.started

C8_ExhaustionArmsTimer ==
  lastEnd.exhausted /\ lastEnd.reason \in {"finished", "stopped"}
    => /\ ~lastEnd.playing
       /\ ~lastEnd.is247 => lastEnd.armed

\* C10: the handler of a track end with reason "replaced" starts no track
\* and no autoplay search.
C10_ReplacedNoAdvance ==
  lastEnd.reason = "replaced"
    => lastEnd.started = NoTrack /\ ~lastEnd.searching

====
